---- MODULE Spec2Model ----
(***************************************************************************)
(* ProblemHunt API: bearer-token guards and the owner-gated handlers.      *)
(*                                                                         *)
(* The three authorization guards of the repository                        *)
(*   shared/auth.py      authenticate_request                              *)
(*   utils.py            get_authenticated_user_id                         *)
(*   PythonFunction      _get_supabase_user_id                             *)
(* are operators over an Authorization header, which is a sequence of      *)
(* atoms (the word Bearer in either case, another scheme word, a blank, a  *)
(* token).  jwt.decode is PyJWT's: structure, then the algorithm allow     *)
(* list, then the signature, then exp, then aud (no audience is passed by  *)
(* any caller, so a token that carries an aud claim is refused).           *)
(*                                                                         *)
(* The document store is the in-memory MockContainer of cosmos.py; the     *)
(* post container of shared/db.py is partitioned by user_id; the wallet    *)
(* table is the Supabase table "wallets".                                  *)
(***************************************************************************)
EXTENDS Integers, Sequences, FiniteSets, TLC

\* ------------------------------------------------------------------------
\* Identities, tokens, headers
\* ------------------------------------------------------------------------

Users == {"U1", "U2"}

\* payload.get("sub") of a token without the claim (Python None)
NoSub == "null"

\* a sub claim that is the empty string
EmptySub == ""

\* the value of os.getenv("SUPABASE_JWT_SECRET") when the variable is unset
NoSecret == "unset"

\* the signing secret the deployment is configured with, and a foreign one
GoodKey == "K1"

BadKey == "K2"

Algs == {"HS256", "HS512", "none"}

\* A token: wf = it has the header.payload.signature structure.
Token(wf, alg, key, expired, sub, aud) ==
    [wf |-> wf, alg |-> alg, key |-> key, expired |-> expired,
     sub |-> sub, aud |-> aud]

\* a string that is not a JWT at all
Garbage == Token(FALSE, "none", BadKey, FALSE, NoSub, FALSE)

WellFormedTokens ==
    { Token(TRUE, a, k, e, s, d) :
        a \in Algs, k \in {GoodKey, BadKey}, e \in BOOLEAN,
        s \in Users \cup {NoSub, EmptySub}, d \in BOOLEAN }

AllTokens == WellFormedTokens \cup {Garbage}

\* Header atoms.  k is "Bearer", "bearer", "Basic", "sp" (one blank) or "tok".
Atom(k, t) == [k |-> k, t |-> t]

Word(k) == Atom(k, Garbage)

Sp == Word("sp")

Tok(t) == Atom("tok", t)

\* a valid, unexpired, correctly signed token of user u
ValidToken(u) == Token(TRUE, "HS256", GoodKey, FALSE, u, FALSE)

\* the header  Bearer <t>
BearerHeader(t) == <<Word("Bearer"), Sp, Tok(t)>>

\* req.headers.get("Authorization") of a request without the header
NoHeader == <<>>

\* ------------------------------------------------------------------------
\* String operations on headers
\* ------------------------------------------------------------------------

IsSp(a) == a.k = "sp"

\* str.split(): the maximal runs of non-blank atoms
RECURSIVE SplitFrom(_, _, _)
SplitFrom(h, cur, acc) ==
    IF h = <<>>
    THEN IF cur = <<>> THEN acc ELSE Append(acc, cur)
    ELSE IF IsSp(Head(h))
         THEN SplitFrom(Tail(h), <<>>, IF cur = <<>> THEN acc ELSE Append(acc, cur))
         ELSE SplitFrom(Tail(h), Append(cur, Head(h)), acc)

Split(h) == SplitFrom(h, <<>>, <<>>)

\* str.lower() == "bearer": the part is the one word Bearer, in any case
LowerIsBearer(w) == Len(w) = 1 /\ w[1].k \in {"Bearer", "bearer"}

\* str.startswith("Bearer ")
StartsWithBearerSp(h) ==
    Len(h) >= 2 /\ h[1].k = "Bearer" /\ IsSp(h[2])

\* str.replace("Bearer ", ""): every occurrence, left to right
RECURSIVE ReplaceBearerSp(_)
ReplaceBearerSp(h) ==
    IF h = <<>> THEN <<>>
    ELSE IF StartsWithBearerSp(h)
         THEN ReplaceBearerSp(Tail(Tail(h)))
         ELSE <<Head(h)>> \o ReplaceBearerSp(Tail(h))

RECURSIVE LStrip(_)
LStrip(h) ==
    IF h # <<>> /\ IsSp(Head(h)) THEN LStrip(Tail(h)) ELSE h

RECURSIVE RStrip(_)
RStrip(h) ==
    IF h # <<>> /\ IsSp(h[Len(h)]) THEN RStrip(SubSeq(h, 1, Len(h) - 1)) ELSE h

\* str.strip()
Strip(h) == LStrip(RStrip(h))

\* ------------------------------------------------------------------------
\* jwt.decode(token, secret, algorithms=["HS256"])
\* ------------------------------------------------------------------------

DecodeOk(sub) == [ok |-> TRUE, err |-> "", sub |-> sub]

DecodeErr(e) == [ok |-> FALSE, err |-> e, sub |-> NoSub]

\* The decode a verifier would perform if it took the algorithm from the
\* token header: alg "none" carries no signature to verify.
JwtDecodeTrustHeader(s, secret) ==
    IF Len(s) # 1 \/ s[1].k # "tok" \/ ~s[1].t.wf
    THEN DecodeErr("DecodeError")
    ELSE LET t == s[1].t IN
         IF t.alg # "none" /\ t.key # secret THEN DecodeErr("InvalidSignatureError")
         ELSE IF t.expired THEN DecodeErr("ExpiredSignatureError")
         ELSE IF t.aud THEN DecodeErr("InvalidAudienceError")
         ELSE DecodeOk(t.sub)

\* The decode a verifier would perform if it looked at exp before it
\* recomputed the signature.
JwtDecodeExpiryFirst(s, secret) ==
    IF Len(s) # 1 \/ s[1].k # "tok" \/ ~s[1].t.wf
    THEN DecodeErr("DecodeError")
    ELSE LET t == s[1].t IN
         IF t.alg # "HS256" THEN DecodeErr("InvalidAlgorithmError")
         ELSE IF t.expired THEN DecodeErr("ExpiredSignatureError")
         ELSE IF t.key # secret THEN DecodeErr("InvalidSignatureError")
         ELSE IF t.aud THEN DecodeErr("InvalidAudienceError")
         ELSE DecodeOk(t.sub)

\* s is the token string (a sequence of atoms), secret the configured key.
JwtDecode(s, secret) ==
    IF Len(s) # 1 \/ s[1].k # "tok" \/ ~s[1].t.wf
    THEN DecodeErr("DecodeError")
    ELSE LET t == s[1].t IN
         IF t.alg # "HS256" THEN DecodeErr("InvalidAlgorithmError")
         ELSE IF t.key # secret THEN DecodeErr("InvalidSignatureError")
         ELSE IF t.expired THEN DecodeErr("ExpiredSignatureError")
         ELSE IF t.aud THEN DecodeErr("InvalidAudienceError")
         ELSE DecodeOk(t.sub)

\* ------------------------------------------------------------------------
\* shared/auth.py
\* ------------------------------------------------------------------------

\* A guard's result: ok with the identity uid, or the AuthError message
\* (cls: which raise statement produced it, detail: the text it embeds).
AuthOk(uid) == [ok |-> TRUE, uid |-> uid, cls |-> "", detail |-> ""]

AuthErr(cls, detail) == [ok |-> FALSE, uid |-> NoSub, cls |-> cls, detail |-> detail]

extract_token(h) ==
    IF h = <<>> THEN [ok |-> FALSE, tok |-> <<>>, cls |-> "MissingHeader"]
    ELSE LET parts == Split(h) IN
         IF Len(parts) # 2 \/ ~LowerIsBearer(parts[1])
         THEN [ok |-> FALSE, tok |-> <<>>, cls |-> "MalformedHeader"]
         ELSE [ok |-> TRUE, tok |-> parts[2], cls |-> ""]

validate_jwt(s, secret) ==
    IF secret = NoSecret
    THEN AuthErr("TokenValidationFailed", "SecretNotSet")
    ELSE LET d == JwtDecode(s, secret) IN
         IF d.ok THEN AuthOk(d.sub)
         ELSE IF d.err = "ExpiredSignatureError" THEN AuthErr("TokenExpired", "")
         ELSE AuthErr("InvalidToken", d.err)

get_user_id_from_token(sub) ==
    IF sub \in {NoSub, EmptySub} THEN AuthErr("MissingSubject", "")
    ELSE AuthOk(sub)

authenticate_request(h, secret) ==
    LET e == extract_token(h) IN
    IF ~e.ok THEN AuthErr(e.cls, "")
    ELSE LET v == validate_jwt(e.tok, secret) IN
         IF ~v.ok THEN v ELSE get_user_id_from_token(v.uid)

\* ------------------------------------------------------------------------
\* utils.py
\* ------------------------------------------------------------------------

\* Returns the sub claim, or NoSub for Python None.
get_authenticated_user_id(h, secret) ==
    IF h = <<>> \/ ~StartsWithBearerSp(h) THEN NoSub
    ELSE LET token == Strip(ReplaceBearerSp(h)) IN
         IF secret = NoSecret THEN NoSub
         ELSE LET d == JwtDecode(token, secret) IN
              IF d.ok THEN d.sub ELSE NoSub

\* "not user_id" in the handlers
Falsy(uid) == uid \in {NoSub, EmptySub}

\* ------------------------------------------------------------------------
\* PythonFunction/__init__.py (comments)
\* ------------------------------------------------------------------------

\* ok with the returned payload.get("sub"), or the exception raised:
\* PermissionError with its message, or the ValueError of _get_env.
_get_supabase_user_id(h, secret) ==
    IF ~StartsWithBearerSp(h) THEN AuthErr("PermissionError", "Missing Bearer token")
    ELSE LET token == Strip(ReplaceBearerSp(h)) IN
         IF secret = NoSecret THEN AuthErr("ValueError", "Missing required env var")
         ELSE LET d == JwtDecode(token, secret) IN
              IF d.ok THEN AuthOk(d.sub)
              ELSE AuthErr("PermissionError", "Invalid token")

\* ------------------------------------------------------------------------
\* Bounds of the model
\* ------------------------------------------------------------------------

\* ids the stores can hand out (uuid4 is modelled as any id not in use)
MaxProblems == 1

MaxPosts == 1

MaxWallets == 1

MaxComments == 1

MaxProposals == 1

MaxTips == 1

ProblemIds == 1 .. MaxProblems

PostIds == 1 .. MaxPosts

WalletIds == 1 .. MaxWallets

CommentIds == 1 .. MaxComments

ProposalIds == 1 .. MaxProposals

TipIds == 1 .. MaxTips

\* a route parameter that is missing or empty
NoId == 0

\* ------------------------------------------------------------------------
\* Stores
\* ------------------------------------------------------------------------

\* A container is a function from the ids present to the documents.
Remove(items, id) == [i \in DOMAIN items \ {id} |-> items[i]]

Put(items, id, doc) == [i \in DOMAIN items \cup {id} |-> IF i = id THEN doc ELSE items[i]]

\* MockContainer.query_items(parameters=[{'name': '@id', ...}]): every stored
\* document has an id field, so the documents kept are those with that id.
QueryById(items, id) == {i \in DOMAIN items : i = id}

\* ContainerProxy.read_item(item, partition_key) on the post container, whose
\* partition key path is /user_id.
ReadItem(items, id, pk) == {i \in DOMAIN items : i = id /\ items[i].user_id = pk}

\* A handler's outcome: the response, the store calls it issued in order, and
\* the container it works on as it leaves it.
Outcome(status, msg, calls, items) ==
    [status |-> status, msg |-> msg, calls |-> calls, items |-> items]

\* ------------------------------------------------------------------------
\* handlers/delete_problem.py
\* ------------------------------------------------------------------------

\* a delete handler that deletes without looking the problem up: delete_item
\* raises CosmosResourceNotFoundError for an id that is not stored
delete_problem_no_lookup(h, id, secret, problems) ==
    LET user_id == get_authenticated_user_id(h, secret) IN
    IF Falsy(user_id)
    THEN Outcome(401, "Authentication required", <<>>, problems)
    ELSE IF id \notin DOMAIN problems
    THEN Outcome(500, "Failed to delete problem", <<"delete_item">>, problems)
    ELSE IF problems[id].authorId # user_id
    THEN Outcome(403, "You can only delete your own problems", <<>>, problems)
    ELSE Outcome(200, "Problem deleted successfully", <<"delete_item">>,
                 Remove(problems, id))

\* a delete handler that forgets the ownership comparison
delete_problem_no_owner_check(h, id, secret, problems) ==
    LET user_id == get_authenticated_user_id(h, secret) IN
    IF Falsy(user_id)
    THEN Outcome(401, "Authentication required", <<>>, problems)
    ELSE IF QueryById(problems, id) = {}
    THEN Outcome(404, "Problem not found", <<"query_items">>, problems)
    ELSE Outcome(200, "Problem deleted successfully",
                 <<"query_items", "delete_item">>, Remove(problems, id))

\* a delete handler that fetches the problem before it looks at the token
delete_problem_fetch_first(h, id, secret, problems) ==
    LET user_id == get_authenticated_user_id(h, secret) IN
    IF QueryById(problems, id) = {}
    THEN Outcome(404, "Problem not found", <<"query_items">>, problems)
    ELSE IF Falsy(user_id)
    THEN Outcome(401, "Authentication required", <<"query_items">>, problems)
    ELSE IF problems[id].authorId # user_id
    THEN Outcome(403, "You can only delete your own problems",
                 <<"query_items">>, problems)
    ELSE Outcome(200, "Problem deleted successfully",
                 <<"query_items", "delete_item">>, Remove(problems, id))

delete_problem(h, id, secret, problems) ==
    LET user_id == get_authenticated_user_id(h, secret) IN
    IF Falsy(user_id)
    THEN Outcome(401, "Authentication required", <<>>, problems)
    ELSE IF QueryById(problems, id) = {}
    THEN Outcome(404, "Problem not found", <<"query_items">>, problems)
    ELSE IF problems[id].authorId # user_id
    THEN Outcome(403, "You can only delete your own problems",
                 <<"query_items">>, problems)
    ELSE Outcome(200, "Problem deleted successfully",
                 <<"query_items", "delete_item">>, Remove(problems, id))

\* ------------------------------------------------------------------------
\* handlers/update_problem.py
\* ------------------------------------------------------------------------

\* A request body.  kind "notjson": req.get_json() raises ValueError.
\* Otherwise title is the value under 'title' (Absent: no such key,
\* NonString: a value without .strip()), and rest tells whether the other
\* fields the handler touches have the types it expects ("ok") or one of
\* them raises when it is processed ("nonstring").
Absent == "<absent>"

NonString == "<nonstring>"

\* Blank: a string of blanks only, which .strip() makes empty.
Blank == "<blank>"

\* A budget is a string, written as the sequence of its characters.
\* NoBudget: the body has no 'budget' key; NonStringBudget: the value is not
\* a string (a JSON number, say).
NoBudget == <<"<absent>">>

NonStringBudget == <<"<nonstring>">>

\* owner is the value under the key that names the record's owner
\* ('authorId' of a problem, 'user_id' of a post), Absent when the body has
\* no such key; category and budget are the values under these keys.
Body(kind, title, rest) ==
    [kind |-> kind, title |-> title, rest |-> rest, owner |-> Absent,
     category |-> Absent, budget |-> NoBudget]

WithOwner(body, u) == [body EXCEPT !.owner = u]

WithFields(body, category, budget) ==
    [body EXCEPT !.category = category, !.budget = budget]

\* valid_categories of create_problem.py
valid_categories == {"AI/ML", "Web3", "Finance", "Governance", "Trading", "Infrastructure"}

DigitValue ==
    ("0" :> 0) @@ ("1" :> 1) @@ ("2" :> 2) @@ ("3" :> 3) @@ ("4" :> 4) @@
    ("5" :> 5) @@ ("6" :> 6) @@ ("7" :> 7) @@ ("8" :> 8) @@ ("9" :> 9)

RECURSIVE SkipToDigit(_)
\* s from its first digit on
SkipToDigit(s) ==
    IF s = <<>> THEN <<>>
    ELSE IF Head(s) \in DOMAIN DigitValue THEN s
    ELSE SkipToDigit(Tail(s))

RECURSIVE TakeDigits(_)
\* the digits s begins with
TakeDigits(s) ==
    IF s = <<>> THEN <<>>
    ELSE IF Head(s) \in DOMAIN DigitValue THEN <<Head(s)>> \o TakeDigits(Tail(s))
    ELSE <<>>

RECURSIVE ToInt(_)
\* int() of a string of digits; 0 for the empty string here
ToInt(s) ==
    IF s = <<>> THEN 0
    ELSE ToInt(SubSeq(s, 1, Len(s) - 1)) * 10 + DigitValue[s[Len(s)]]

\* utils.py parse_budget_value of a string: re.search(r'\$?(\d+)') finds the
\* leftmost run of digits, taken whole; 0 without a digit
parse_budget_value(budget_string) == ToInt(TakeDigits(SkipToDigit(budget_string)))

\* str.strip() of a text field
StripText(t) == IF t = Blank THEN "" ELSE t

NotJson == Body("notjson", Absent, "ok")

\* the well-formed update the model sends with any header
UpdateOk == Body("object", "t2", "ok")

UpdateBodies ==
    { UpdateOk, NotJson,
      WithOwner(UpdateOk, "U1"), WithOwner(UpdateOk, "U2"),
      Body("object", Blank, "ok"),
      Body("object", "t1", "ok"),
      Body("object", Absent, "ok"),
      Body("object", NonString, "ok"),
      Body("object", "t2", "nonstring") }

\* query_items of the MockContainer returns the stored dict itself, so an
\* assignment to problem[...] is visible in the container at once, before
\* and whether or not replace_item is reached.
update_problem(h, id, body, secret, problems) ==
    LET user_id == get_authenticated_user_id(h, secret) IN
    IF Falsy(user_id)
    THEN Outcome(401, "Authentication required", <<>>, problems)
    ELSE IF body.kind = "notjson"
    THEN Outcome(400, "Invalid JSON", <<>>, problems)
    ELSE IF QueryById(problems, id) = {}
    THEN Outcome(404, "Problem not found", <<"query_items">>, problems)
    ELSE IF problems[id].authorId # user_id
    THEN Outcome(403, "You can only edit your own problems",
                 <<"query_items">>, problems)
    ELSE IF body.title = NonString
    THEN Outcome(500, "Failed to update problem", <<"query_items">>, problems)
    ELSE LET titled == IF body.title = Absent THEN problems
                       ELSE [problems EXCEPT ![id].title = StripText(body.title)]
             filed == IF body.category = Absent THEN titled
                      ELSE [titled EXCEPT ![id].category = body.category]
             priced == IF body.budget = NoBudget THEN filed
                       ELSE [filed EXCEPT ![id].budget = body.budget]
         IN  IF body.rest = "nonstring"
             THEN Outcome(500, "Failed to update problem", <<"query_items">>, titled)
             ELSE IF body.budget = NonStringBudget
             THEN Outcome(500, "Failed to update problem", <<"query_items">>, priced)
             ELSE Outcome(200, "updated", <<"query_items", "replace_item">>,
                          IF body.budget = NoBudget THEN priced
                          ELSE [priced EXCEPT ![id].budgetValue =
                                                  parse_budget_value(body.budget)])

\* ------------------------------------------------------------------------
\* handlers/create_problem.py
\* ------------------------------------------------------------------------

\* the budget "$50"
Budget50 == <<"$", "5", "0">>

\* a body with a category of the list and a budget
Filled(body) == WithFields(body, "Web3", Budget50)

\* rest of a create body: "ok", "missing" (description is absent or empty),
\* "badcategory" (category outside valid_categories; the category is then
\* "Other"), "nonstring" (description has no .strip()).
\* validate_required tests "not obj.get(field)": a title that is absent or
\* the empty string is Absent here, a title of blanks only is Blank.
CreateOk == Filled(Body("object", "t1", "ok"))

CreateBodies ==
    { CreateOk, NotJson,
      Filled(Body("object", Blank, "ok")),
      Filled(Body("object", Absent, "ok")),
      Filled(Body("object", "t1", "missing")),
      WithFields(Body("object", "t1", "badcategory"), "Other", Budget50),
      Filled(Body("object", NonString, "ok")),
      Filled(Body("object", "t1", "nonstring")) }

\* new_id is the value of generate_id()
create_problem(h, new_id, body, secret, problems) ==
    LET user_id == get_authenticated_user_id(h, secret) IN
    IF Falsy(user_id)
    THEN Outcome(401, "Authentication required", <<>>, problems)
    ELSE IF body.kind = "notjson"
    THEN Outcome(400, "Invalid JSON", <<>>, problems)
    ELSE IF \/ body.title = Absent
            \/ body.rest = "missing"
            \/ body.category \in {Absent, ""}
            \/ body.budget \in {NoBudget, <<>>}
    THEN Outcome(400, "Missing required fields", <<>>, problems)
    ELSE IF body.category \notin valid_categories
    THEN Outcome(400, "Invalid category", <<>>, problems)
    ELSE IF \/ body.title = NonString
            \/ body.rest = "nonstring"
            \/ body.budget = NonStringBudget
    THEN Outcome(500, "Failed to create problem", <<>>, problems)
    ELSE Outcome(201, "created", <<"create_item">>,
                 Put(problems, new_id,
                     [authorId |-> user_id, title |-> StripText(body.title),
                      upvotes |-> 0, proposals |-> 0,
                      category |-> body.category, budget |-> body.budget,
                      budgetValue |-> parse_budget_value(body.budget)]))

\* ------------------------------------------------------------------------
\* CreatePost/__init__.py, shared/db.py save_post
\* ------------------------------------------------------------------------

\* rest of a post body: "ok", or "missing" (content absent or blank)
PostBodies ==
    { CreateOk, NotJson,
      Body("object", Blank, "ok"),
      Body("object", Absent, "ok"),
      Body("object", "t1", "missing"),
      Body("object", NonString, "ok") }

\* new_id is the uuid4 save_post draws
create_post(h, new_id, body, secret, posts) ==
    LET a == authenticate_request(h, secret) IN
    IF ~a.ok
    THEN Outcome(401, a.cls, <<>>, posts)
    ELSE IF body.kind = "notjson"
    THEN Outcome(400, "Invalid JSON in request body", <<>>, posts)
    ELSE IF body.title = NonString
    THEN Outcome(500, "Internal server error", <<>>, posts)
    ELSE IF StripText(body.title) = "" \/ body.title = Absent \/ body.rest = "missing"
    THEN Outcome(400, "Title and content are required", <<>>, posts)
    ELSE Outcome(201, "created", <<"upsert_item">>,
                 Put(posts, new_id, [user_id |-> a.uid, title |-> StripText(body.title)]))

\* ------------------------------------------------------------------------
\* DeleteProblem/__init__.py (DeletePost), shared/db.py
\* ------------------------------------------------------------------------

delete_post(h, post_id, secret, posts) ==
    LET a == authenticate_request(h, secret) IN
    IF ~a.ok
    THEN Outcome(401, a.cls, <<>>, posts)
    ELSE IF post_id = NoId
    THEN Outcome(400, "post_id is required in the URL path", <<>>, posts)
    ELSE IF ReadItem(posts, post_id, a.uid) = {}
    THEN Outcome(404, "Post not found", <<"read_item">>, posts)
    ELSE IF posts[post_id].user_id # a.uid
    THEN Outcome(403, "Unauthorized: You can only delete your own posts",
                 <<"read_item">>, posts)
    ELSE Outcome(200, "Post deleted successfully",
                 <<"read_item", "delete_item">>, Remove(posts, post_id))

\* ------------------------------------------------------------------------
\* WalletById/__init__.py
\* ------------------------------------------------------------------------

\* sb.table("wallets").select("id").eq("id", wallet_id).eq("user_id", user_id)
SelectWallet(wallets, wallet_id, user_id) ==
    {i \in DOMAIN wallets : i = wallet_id /\ wallets[i].user_id = user_id}

\* a handler that deletes the row with the id, whoever owns it
delete_wallet_any_owner(h, wallet_id, secret, wallets) ==
    LET user_id == get_authenticated_user_id(h, secret) IN
    IF Falsy(user_id)
    THEN Outcome(401, "Authentication required", <<>>, wallets)
    ELSE IF wallet_id = NoId
    THEN Outcome(400, "wallet_id is required", <<>>, wallets)
    ELSE IF wallet_id \notin DOMAIN wallets
    THEN Outcome(404, "Wallet not found or access denied", <<"select">>, wallets)
    ELSE Outcome(200, "deleted", <<"select", "delete">>, Remove(wallets, wallet_id))

delete_wallet(h, wallet_id, secret, wallets) ==
    LET user_id == get_authenticated_user_id(h, secret) IN
    IF Falsy(user_id)
    THEN Outcome(401, "Authentication required", <<>>, wallets)
    ELSE IF wallet_id = NoId
    THEN Outcome(400, "wallet_id is required", <<>>, wallets)
    ELSE IF SelectWallet(wallets, wallet_id, user_id) = {}
    THEN Outcome(404, "Wallet not found or access denied", <<"select">>, wallets)
    ELSE Outcome(200, "deleted", <<"select", "delete">>,
                 [i \in DOMAIN wallets \ SelectWallet(wallets, wallet_id, user_id)
                    |-> wallets[i]])

\* ------------------------------------------------------------------------
\* Wallets/__init__.py, POST
\* ------------------------------------------------------------------------

\* A wallet body: chain and address are the values after .strip() (and
\* .lower() for the chain); rest is "ok", "badchain" (chain outside
\* VALID_CHAINS) or "badaddress" (_validate_address returns a message).
WalletBody(chain, address, rest) ==
    [chain |-> chain, address |-> address] @@ Body("object", Absent, rest)

WalletOk == WalletBody("ethereum", "a1", "ok")

WalletBodies ==
    { WalletOk, NotJson, WalletBody("bitcoin", "a1", "badchain"),
      WalletBody("ethereum", "", "badaddress") }

\* What the table does with the delete and the insert of a request: both
\* pass ("ok"), the insert raises with error code 23505 in its message, the
\* insert raises otherwise, or the delete raises.
TableResults == {"ok", "23505", "insert raises", "delete raises"}

\* .delete().eq("user_id", user_id).eq("chain", chain): the rows that stay
WithoutChain(wallets, user_id, chain) ==
    [i \in {j \in DOMAIN wallets :
               ~(wallets[j].user_id = user_id /\ wallets[j].chain = chain)}
       |-> wallets[i]]

\* the row of the insert
WalletRow(user_id, body) ==
    [user_id |-> user_id, chain |-> body.chain, address |-> body.address]

\* a handler that removes the caller's wallet before it validates the address
wallets_post_delete_first(h, new_id, body, inserted, secret, wallets) ==
    LET user_id == get_authenticated_user_id(h, secret)
        deleted == WithoutChain(wallets, user_id, body.chain)
    IN  IF Falsy(user_id)
        THEN Outcome(401, "Authentication required", <<>>, wallets)
        ELSE IF body.kind = "notjson"
        THEN Outcome(400, "Invalid JSON body", <<>>, wallets)
        ELSE IF body.rest = "badchain"
        THEN Outcome(400, "chain must be one of", <<>>, wallets)
        ELSE IF body.rest = "badaddress"
        THEN Outcome(400, "address", <<"delete">>, deleted)
        ELSE IF inserted = "delete raises"
        THEN Outcome(500, "Failed to save wallet", <<"delete">>, wallets)
        ELSE IF inserted = "insert raises"
        THEN Outcome(500, "Failed to save wallet", <<"delete", "insert">>, deleted)
        ELSE IF inserted = "23505"
        THEN Outcome(409, "This address is already linked to another account.",
                     <<"delete", "insert">>, deleted)
        ELSE Outcome(201, "created", <<"delete", "insert">>,
                     Put(deleted, new_id, WalletRow(user_id, body)))

\* inserted: what the table does with the delete (line 99) and the insert
\* (101-110), one of TableResults.  An exception of either is caught at line
\* 113: 409 when its message holds 23505, 500 otherwise; the delete that
\* passed before stays done.
wallets_post(h, new_id, body, inserted, secret, wallets) ==
    LET user_id == get_authenticated_user_id(h, secret)
        deleted == WithoutChain(wallets, user_id, body.chain)
    IN  IF Falsy(user_id)
        THEN Outcome(401, "Authentication required", <<>>, wallets)
        ELSE IF body.kind = "notjson"
        THEN Outcome(400, "Invalid JSON body", <<>>, wallets)
        ELSE IF body.rest = "badchain"
        THEN Outcome(400, "chain must be one of", <<>>, wallets)
        ELSE IF body.rest = "badaddress"
        THEN Outcome(400, "address", <<>>, wallets)
        ELSE IF inserted = "delete raises"
        THEN Outcome(500, "Failed to save wallet", <<"delete">>, wallets)
        ELSE IF inserted = "insert raises"
        THEN Outcome(500, "Failed to save wallet", <<"delete", "insert">>, deleted)
        ELSE IF inserted = "23505"
        THEN Outcome(409, "This address is already linked to another account.",
                     <<"delete", "insert">>, deleted)
        ELSE Outcome(201, "created", <<"delete", "insert">>,
                     Put(deleted, new_id, WalletRow(user_id, body)))

\* ------------------------------------------------------------------------
\* shared/db.py update_post
\* ------------------------------------------------------------------------

\* the updates dict: title Absent when it has no 'title' key, owner the value
\* under its 'user_id' key
PostUpdates ==
    { UpdateOk, WithOwner(UpdateOk, "U1"), WithOwner(UpdateOk, "U2"),
      Body("object", "t2", "ok"), Body("object", Absent, "ok") }

\* an update that merges the updates dict as it is
update_post_merge_all(user_id, post_id, updates, posts) ==
    IF ReadItem(posts, post_id, user_id) = {}
    THEN Outcome(0, "CosmosDBError", <<"read_item">>, posts)
    ELSE Outcome(0, "updated", <<"read_item", "replace_item">>,
                 [posts EXCEPT
                     ![post_id].title = IF updates.title = Absent THEN @
                                        ELSE updates.title,
                     ![post_id].user_id = IF updates.owner = Absent THEN @
                                          ELSE updates.owner])

\* update_post is a method of the client, not a handler: status is 0, msg
\* tells a returned document ("updated") from a raised CosmosDBError.
update_post(user_id, post_id, updates, posts) ==
    IF ReadItem(posts, post_id, user_id) = {}
    THEN Outcome(0, "CosmosDBError", <<"read_item">>, posts)
    ELSE Outcome(0, "updated", <<"read_item", "replace_item">>,
                 [posts EXCEPT
                     ![post_id].title = IF updates.title = Absent THEN @
                                        ELSE updates.title,
                     ![post_id].user_id = user_id])

\* ------------------------------------------------------------------------
\* PythonFunction/__init__.py main (comments)
\* ------------------------------------------------------------------------

\* The body of a comment request: title stands for the 'text' field.
CommentBodies ==
    { CreateOk, NotJson, Body("object", Absent, "ok"), Body("object", NonString, "ok") }

\* problem_id is the problemId of the query string (GET) or of the body (POST)
comments_main(h, method, problem_id, new_id, body, secret, comments) ==
    LET a == _get_supabase_user_id(h, secret) IN
    IF ~a.ok
    THEN Outcome(401, IF a.cls = "PermissionError" THEN a.detail ELSE "Auth error",
                 <<>>, comments)
    ELSE IF method = "GET"
    THEN IF problem_id = NoId
         THEN Outcome(400, "Missing problemId", <<"connect">>, comments)
         ELSE Outcome(200, "comments", <<"connect", "query_items">>, comments)
    ELSE IF method = "POST"
    THEN IF body.kind = "notjson"
         THEN Outcome(400, "Invalid JSON", <<"connect">>, comments)
         ELSE IF problem_id = NoId \/ body.title = Absent
         THEN Outcome(400, "problemId and text are required", <<"connect">>, comments)
         ELSE IF body.title = NonString
         THEN Outcome(500, "unhandled exception", <<"connect">>, comments)
         ELSE Outcome(201, "created", <<"connect", "create_item">>,
                      Put(comments, new_id,
                          [problemId |-> problem_id, userId |-> a.uid]))
    ELSE Outcome(405, "Method not allowed", <<"connect">>, comments)

\* The outcome of a request whose exception no except clause of the handler
\* catches: the function host answers 500 without the handler's error body.
Unhandled == "unhandled exception"

\* whether the handler issues the call when nothing raises
Calls(out, call) == \E i \in 1..Len(out.calls) : out.calls[i] = call

\* main when the store call named by fault raises.  _get_cosmos_container()
\* (line 64) and query_items (72-76) are outside every try; create_item is
\* inside one that catches CosmosHttpResponseError (103-106).
comments_main_faulty(h, method, problem_id, new_id, body, fault, secret, comments) ==
    LET out == comments_main(h, method, problem_id, new_id, body, secret, comments) IN
    IF ~Calls(out, fault)
    THEN out
    ELSE IF fault = "connect"
    THEN Outcome(500, Unhandled, <<"connect">>, comments)
    ELSE IF fault = "query_items"
    THEN Outcome(500, Unhandled, <<"connect", "query_items">>, comments)
    ELSE Outcome(500, "Cosmos write failed", <<"connect", "create_item">>, comments)

\* handle of delete_problem.py when the store call named by fault raises: the
\* whole body is inside try ... except Exception (lines 59-65).
delete_problem_faulty(h, id, fault, secret, problems) ==
    LET out == delete_problem(h, id, secret, problems) IN
    IF ~Calls(out, fault)
    THEN out
    ELSE IF fault = "query_items"
    THEN Outcome(500, "Failed to delete problem", <<"query_items">>, problems)
    ELSE Outcome(500, "Failed to delete problem",
                 <<"query_items", "delete_item">>, problems)

\* ------------------------------------------------------------------------
\* cosmos.py containers: the handlers that work on several containers
\* ------------------------------------------------------------------------

\* the containers dict as a handler finds it
Containers(problems, upvotes, proposals, tips) ==
    [problems |-> problems, upvotes |-> upvotes, proposals |-> proposals,
     tips |-> tips]

\* A handler's outcome when it works on several containers: db is the
\* containers dict as the handler leaves it.
Effect(status, msg, calls, db) ==
    [status |-> status, msg |-> msg, calls |-> calls, db |-> db]

\* f"{problem_id}-{user_id}": problem ids are uuid4 strings of one length, so
\* two such strings are equal exactly when both parts are.
upvote_id(problem_id, user_id) == <<problem_id, user_id>>

\* problem.get('upvotes', 0) / problem.get('proposals', 0)
Count(doc, field) == IF field \in DOMAIN doc THEN doc[field] ELSE 0

Max(a, b) == IF a >= b THEN a ELSE b

\* ------------------------------------------------------------------------
\* handlers/upvote_problem.py
\* ------------------------------------------------------------------------

\* an upvote handler that does not look for an earlier upvote
upvote_problem_no_duplicate_check(h, id, secret, db) ==
    LET user_id == get_authenticated_user_id(h, secret) IN
    IF Falsy(user_id)
    THEN Effect(401, "Authentication required", <<>>, db)
    ELSE IF QueryById(db.problems, id) = {}
    THEN Effect(404, "Problem not found", <<"query_items">>, db)
    ELSE Effect(200, "Problem upvoted successfully",
                <<"query_items", "query_items", "create_item", "replace_item">>,
                [db EXCEPT
                    !.upvotes = Put(@, upvote_id(id, user_id),
                                    [problemId |-> id, userId |-> user_id]),
                    !.problems[id].upvotes = Count(db.problems[id], "upvotes") + 1])

upvote_problem(h, id, secret, db) ==
    LET user_id == get_authenticated_user_id(h, secret) IN
    IF Falsy(user_id)
    THEN Effect(401, "Authentication required", <<>>, db)
    ELSE IF QueryById(db.problems, id) = {}
    THEN Effect(404, "Problem not found", <<"query_items">>, db)
    ELSE IF QueryById(db.upvotes, upvote_id(id, user_id)) # {}
    THEN Effect(409, "You already upvoted this problem",
                <<"query_items", "query_items">>, db)
    ELSE Effect(200, "Problem upvoted successfully",
                <<"query_items", "query_items", "create_item", "replace_item">>,
                [db EXCEPT
                    !.upvotes = Put(@, upvote_id(id, user_id),
                                    [problemId |-> id, userId |-> user_id]),
                    !.problems[id].upvotes = Count(db.problems[id], "upvotes") + 1])

\* ------------------------------------------------------------------------
\* handlers/get_problem_by_id.py
\* ------------------------------------------------------------------------

get_problem_by_id(id, problems) ==
    IF id = NoId
    THEN Outcome(400, "Problem ID is required", <<>>, problems)
    ELSE IF QueryById(problems, id) = {}
    THEN Outcome(404, "Problem not found", <<"query_items">>, problems)
    ELSE Outcome(200, "found", <<"query_items">>, problems)

\* ------------------------------------------------------------------------
\* handlers/remove_upvote.py
\* ------------------------------------------------------------------------

\* a handler that deletes the upvote record and leaves the count as it is
remove_upvote_keep_count(h, id, secret, db) ==
    LET user_id == get_authenticated_user_id(h, secret) IN
    IF Falsy(user_id)
    THEN Effect(401, "Authentication required", <<>>, db)
    ELSE IF QueryById(db.upvotes, upvote_id(id, user_id)) = {}
    THEN Effect(404, "Upvote not found", <<"query_items">>, db)
    ELSE Effect(200, "Upvote removed successfully",
                <<"query_items", "delete_item", "query_items">>,
                [db EXCEPT !.upvotes = Remove(@, upvote_id(id, user_id))])

remove_upvote(h, id, secret, db) ==
    LET user_id == get_authenticated_user_id(h, secret) IN
    IF Falsy(user_id)
    THEN Effect(401, "Authentication required", <<>>, db)
    ELSE IF QueryById(db.upvotes, upvote_id(id, user_id)) = {}
    THEN Effect(404, "Upvote not found", <<"query_items">>, db)
    ELSE LET removed == [db EXCEPT !.upvotes = Remove(@, upvote_id(id, user_id))] IN
         IF QueryById(db.problems, id) = {}
         THEN Effect(200, "Upvote removed successfully",
                     <<"query_items", "delete_item", "query_items">>, removed)
         ELSE Effect(200, "Upvote removed successfully",
                     <<"query_items", "delete_item", "query_items", "replace_item">>,
                     [removed EXCEPT !.problems[id].upvotes =
                          Max(0, Count(db.problems[id], "upvotes") - 1)])

\* ------------------------------------------------------------------------
\* handlers/create_proposal.py
\* ------------------------------------------------------------------------

\* rest of a proposal body: "ok", "missing" (description is absent or empty),
\* "nonstring" (description has no .strip()).
ProposalBodies ==
    { CreateOk, NotJson,
      WithOwner(CreateOk, "U2"),
      Body("object", Absent, "ok"),
      Body("object", "t1", "missing"),
      Body("object", NonString, "ok") }

create_proposal(h, id, new_id, body, secret, db) ==
    LET user_id == get_authenticated_user_id(h, secret) IN
    IF Falsy(user_id)
    THEN Effect(401, "Authentication required", <<>>, db)
    ELSE IF body.kind = "notjson"
    THEN Effect(400, "Invalid JSON", <<>>, db)
    ELSE IF body.title = Absent \/ body.rest = "missing"
    THEN Effect(400, "Missing required fields", <<>>, db)
    ELSE IF QueryById(db.problems, id) = {}
    THEN Effect(404, "Problem not found", <<"query_items">>, db)
    ELSE IF body.title = NonString \/ body.rest = "nonstring"
    THEN Effect(500, "Failed to create proposal", <<"query_items">>, db)
    ELSE Effect(201, "created", <<"query_items", "create_item", "replace_item">>,
                [db EXCEPT
                    !.proposals = Put(@, new_id,
                                      [problemId |-> id, builderId |-> user_id,
                                       title |-> StripText(body.title)]),
                    !.problems[id].proposals = Count(db.problems[id], "proposals") + 1])

\* ------------------------------------------------------------------------
\* upvote_problem.py, remove_upvote.py, create_proposal.py: a store call raises
\* ------------------------------------------------------------------------

\* The problem as the container holds it when replace_item raises after the
\* handler assigned the new count to the dict the query returned.  aliased:
\* the query returned the stored dict itself, as MockContainer.query_items
\* does, so the container shows the count; otherwise it returned a copy.
Assigned(aliased, before, after) ==
    IF aliased THEN [before EXCEPT !.problems = after.problems] ELSE before

\* upvote_problem.py when the store call named by fault raises: every
\* exception is answered 500 (lines 78-84); create_item (61) has been done
\* when replace_item (67) raises
upvote_problem_faulty(h, id, fault, aliased, secret, db) ==
    LET out == upvote_problem(h, id, secret, db) IN
    IF ~Calls(out, fault)
    THEN out
    ELSE IF fault = "query_items"
    THEN Effect(500, "Failed to upvote problem", <<"query_items">>, db)
    ELSE IF fault = "create_item"
    THEN Effect(500, "Failed to upvote problem",
                <<"query_items", "query_items", "create_item">>, db)
    ELSE Effect(500, "Failed to upvote problem", out.calls,
                Assigned(aliased, [db EXCEPT !.upvotes = out.db.upvotes], out.db))

\* remove_upvote.py when the store call named by fault raises: delete_item
\* (38) has been done when replace_item (51) raises
remove_upvote_faulty(h, id, fault, aliased, secret, db) ==
    LET out == remove_upvote(h, id, secret, db) IN
    IF ~Calls(out, fault)
    THEN out
    ELSE IF fault = "query_items"
    THEN Effect(500, "Failed to remove upvote", <<"query_items">>, db)
    ELSE IF fault = "delete_item"
    THEN Effect(500, "Failed to remove upvote", <<"query_items", "delete_item">>, db)
    ELSE Effect(500, "Failed to remove upvote", out.calls,
                Assigned(aliased, [db EXCEPT !.upvotes = out.db.upvotes], out.db))

\* create_proposal.py when the store call named by fault raises: create_item
\* (79) has been done when replace_item (84) raises
create_proposal_faulty(h, id, new_id, body, fault, aliased, secret, db) ==
    LET out == create_proposal(h, id, new_id, body, secret, db) IN
    IF ~Calls(out, fault)
    THEN out
    ELSE IF fault = "query_items"
    THEN Effect(500, "Failed to create proposal", <<"query_items">>, db)
    ELSE IF fault = "create_item"
    THEN Effect(500, "Failed to create proposal", <<"query_items", "create_item">>, db)
    ELSE Effect(500, "Failed to create proposal", out.calls,
                Assigned(aliased, [db EXCEPT !.proposals = out.db.proposals], out.db))

\* ------------------------------------------------------------------------
\* handlers/tip_builder.py
\* ------------------------------------------------------------------------

\* rest of a tip body: "ok" (amount is a positive number), "badamount"
\* (amount is absent, not a number, zero or negative).
TipOk == Body("object", Absent, "ok")

TipBodies == { TipOk, NotJson, Body("object", Absent, "badamount") }

tip_builder(h, id, new_id, body, secret, db) ==
    LET user_id == get_authenticated_user_id(h, secret) IN
    IF Falsy(user_id)
    THEN Effect(401, "Authentication required", <<>>, db)
    ELSE IF body.kind = "notjson"
    THEN Effect(400, "Invalid JSON", <<>>, db)
    ELSE IF body.rest = "badamount"
    THEN Effect(400, "Valid amount is required", <<>>, db)
    ELSE IF QueryById(db.proposals, id) = {}
    THEN Effect(404, "Proposal not found", <<"query_items">>, db)
    ELSE Effect(201, "created", <<"query_items", "create_item">>,
                [db EXCEPT !.tips = Put(@, new_id,
                                        [proposalId |-> id,
                                         builderId |-> db.proposals[id].builderId,
                                         tipperId |-> user_id])])

\* ------------------------------------------------------------------------
\* Listings: handlers/get_problems.py, handlers/get_user_problems.py,
\* GetProblems/__init__.py (posts), handlers/get_leaderboard.py
\* ------------------------------------------------------------------------

Min(a, b) == IF a <= b THEN a ELSE b

\* an index of a Python slice over a list of n elements
SliceIndex(k, n) == IF k < 0 THEN Max(k + n, 0) ELSE Min(k, n)

\* seq[i:j]
PySlice(seq, i, j) ==
    LET lo == SliceIndex(i, Len(seq))
        hi == SliceIndex(j, Len(seq))
    IN  IF hi <= lo THEN <<>> ELSE SubSeq(seq, lo + 1, hi)

\* ORDER BY ... OFFSET offset LIMIT limit, for offset >= 0 and limit >= 1
SqlPage(seq, offset, limit) ==
    IF offset >= Len(seq) THEN <<>>
    ELSE SubSeq(seq, offset + 1, Min(offset + limit, Len(seq)))

RECURSIVE Newest(_)
\* The ids of S, newest first: the ids of a listing are numbered in the
\* order of creation, so sorting by createdAt descending sorts by id.
Newest(S) ==
    IF S = {} THEN <<>>
    ELSE LET m == CHOOSE x \in S : \A y \in S : y <= x
         IN  <<m>> \o Newest(S \ {m})

\* The body of a listing response.  items: what is returned; matching: the
\* filtered, sorted list before pagination; served_limit, served_offset: the
\* values the page was cut with; keys: which of 'total', 'limit' and 'offset'
\* the body carries (a field whose key is missing is 0 here).
Page(items, matching, served_limit, served_offset, keys, total, limit, offset) ==
    [items |-> items, matching |-> matching, served_limit |-> served_limit,
     served_offset |-> served_offset, keys |-> keys, total |-> total,
     limit |-> limit, offset |-> offset]

NoPage == Page(<<>>, <<>>, 0, 0, {}, 0, 0, 0)

PagingKeys == {"total", "limit", "offset"}

\* A listing's outcome: the response and its body.  limit and offset are the
\* integers int() made of the query parameters.
Listing(status, msg, page) == [status |-> status, msg |-> msg, calls |-> <<>>, page |-> page]

\* handlers/get_problems.py with sortBy=newest and no category or budget
\* filter
get_problems(limit, offset, problems) ==
    LET filtered == Newest(DOMAIN problems)
    IN  Listing(200, "problems",
                Page(PySlice(filtered, offset, offset + limit), filtered,
                     limit, offset, PagingKeys, Len(filtered), limit, offset))

\* MockContainer.query_items with one parameter: an item is dropped when it
\* has a field of the parameter's name (the name without '@') whose value is
\* not the parameter's; the query text is not read.
query_items(items, param_name, param_value) ==
    {i \in DOMAIN items :
        ~(param_name \in DOMAIN items[i] /\ items[i][param_name] # param_value)}

RECURSIVE Oldest(_)
\* list(self.items.values()): the ids of S in the order of creation
Oldest(S) ==
    IF S = {} THEN <<>>
    ELSE LET m == CHOOSE x \in S : \A y \in S : x <= y
         IN  <<m>> \o Oldest(S \ {m})

\* handlers/get_user_proposals.py: the query names c.builderId and passes the
\* parameter @userId; the body carries 'total' alone
get_user_proposals(h, secret, proposals) ==
    LET user_id == get_authenticated_user_id(h, secret)
        found == Oldest(query_items(proposals, "userId", user_id))
    IN  IF Falsy(user_id)
        THEN Listing(401, "Authentication required", NoPage)
        ELSE Listing(200, "proposals",
                     Page(found, found, 0, 0, {"total"}, Len(found), 0, 0))

\* Wallets/__init__.py main, GET: .eq("user_id", user_id), oldest first
wallets_get(h, secret, wallets) ==
    LET user_id == get_authenticated_user_id(h, secret)
        found == Oldest({i \in DOMAIN wallets : wallets[i].user_id = user_id})
    IN  IF Falsy(user_id)
        THEN Listing(401, "Authentication required", NoPage)
        ELSE Listing(200, "wallets", Page(found, found, 0, 0, {}, 0, 0, 0))

\* handlers/get_user_problems.py with the default sortBy
get_user_problems(h, limit, offset, secret, problems) ==
    LET user_id == get_authenticated_user_id(h, secret)
        user_problems == Newest(query_items(problems, "authorId", user_id))
    IN  IF Falsy(user_id)
        THEN Listing(401, "Authentication required", NoPage)
        ELSE Listing(200, "problems",
                     Page(PySlice(user_problems, offset, offset + limit),
                          user_problems, limit, offset, PagingKeys,
                          Len(user_problems), limit, offset))

\* GetProblems/__init__.py main and shared/db.py get_posts: the body is the
\* list of posts itself
get_posts(h, limit, offset, secret, posts) ==
    LET a == authenticate_request(h, secret)
        l == Max(Min(limit, 100), 1)
        o == Max(offset, 0)
        mine == Newest({i \in DOMAIN posts : posts[i].user_id = a.uid})
    IN  IF ~a.ok
        THEN Listing(401, a.cls, NoPage)
        ELSE Listing(200, "posts",
                     Page(SqlPage(mine, o, l), mine, l, o, {}, 0, 0, 0))

RECURSIVE Ranked(_, _)
\* sorted(builder_stats.values(), key=reputationScore, reverse=True): score is
\* a map from builder to score.  Builders of equal score keep the order of
\* their first proposal in the query result; the model fixes one such order.
Ranked(B, score) ==
    IF B = {} THEN <<>>
    ELSE LET best == CHOOSE b \in B : \A c \in B : score[c] <= score[b]
         IN  <<best>> \o Ranked(B \ {best}, score)

\* handlers/get_leaderboard.py: no tip is stored in the states listed, and
\* no proposal is accepted, so the score is 5 for each proposal submitted
get_leaderboard(limit, proposals) ==
    LET builders == {proposals[i].builderId : i \in DOMAIN proposals}
        score == [b \in builders |->
                     5 * Cardinality({i \in DOMAIN proposals : proposals[i].builderId = b})]
        ranked == Ranked(builders, score)
        leaderboard == PySlice(ranked, 0, limit)
    IN  Listing(200, "leaderboard",
                Page(leaderboard, ranked, limit, 0, {"total"}, Len(leaderboard), 0, 0))

\* ------------------------------------------------------------------------
\* The requests the model issues
\* ------------------------------------------------------------------------

ExpiredToken(u) == Token(TRUE, "HS256", GoodKey, TRUE, u, FALSE)

\* the tokens presented to the handlers
Tokens ==
    { ValidToken(u) : u \in Users } \cup
    { ExpiredToken("U1"),
      Token(TRUE, "HS256", BadKey, FALSE, "U1", FALSE),
      Token(TRUE, "none", GoodKey, FALSE, "U1", FALSE),
      Token(TRUE, "HS256", GoodKey, FALSE, NoSub, FALSE) }

\* headers that are not  Bearer <token>
OddHeaders ==
    LET t == Tok(ValidToken("U1")) IN
    { NoHeader,
      <<Word("Basic"), Sp, t>>,
      <<Word("Bearer"), Sp, t, Sp, t>>,
      <<Word("Bearer"), Sp, Word("Bearer"), Sp, t>> }

\* other spellings of  Bearer <token>
VariantHeaders ==
    LET t == Tok(ValidToken("U1")) IN
    { <<Word("bearer"), Sp, t>> }

\* the headers presented to the handlers
Headers == { BearerHeader(t) : t \in Tokens } \cup OddHeaders \cup VariantHeaders

ValidHeaders == { BearerHeader(ValidToken(u)) : u \in Users }

\* the headers presented to the guards on their own
AllHeaders ==
    LET t == Tok(ValidToken("U1")) IN
    { BearerHeader(x) : x \in AllTokens } \cup OddHeaders \cup VariantHeaders \cup
    { <<t>>, <<Word("Bearer"), Sp>>, <<Word("Bearer"), t>>, <<Word("Bearer"), Sp, Sp, t>>,
      <<Word("Bearer"), Sp, t, Sp>> }

\* Every header with the handler's well-formed body d, and every body of B
\* under a valid token of each user.
Reqs(B, d) == (Headers \X {d}) \cup (ValidHeaders \X B)

\* Every header with an id of the collection, and a missing id under a valid
\* token of each user.
IdReqs(ids) == (Headers \X ids) \cup (ValidHeaders \X {NoId})

\* ------------------------------------------------------------------------
\* State
\* ------------------------------------------------------------------------

VARIABLES
    secret,     \* os.getenv("SUPABASE_JWT_SECRET"), or NoSecret
    problems,   \* containers['problems'].items
    posts,      \* the post container of shared/db.py
    wallets,    \* the Supabase table wallets
    comments,   \* the comment container of PythonFunction
    upvotes,    \* containers['upvotes'].items
    proposals,  \* containers['proposals'].items
    tips,       \* containers['tips'].items
    trail,      \* the latest requests in order, where a sequence is followed
    inflight,   \* the upvote requests that are being handled concurrently
    last,       \* the last request and its response
    pre         \* the stores as they were before the last request

vars == <<secret, problems, posts, wallets, comments, upvotes, proposals, tips,
          trail, inflight, last, pre>>

Empty == [i \in {} |-> 0]

Stores == [problems |-> problems, posts |-> posts, wallets |-> wallets,
           comments |-> comments, upvotes |-> upvotes, proposals |-> proposals,
           tips |-> tips]

NoBody == Body("none", Absent, "ok")

\* the store call that raises during a request; NoFault: none does
NoFault == "none"

\* uid: what the handler's guard returned for the header (NoSub: nothing)
Last(op, hdr, id, body, uid, out) ==
    [op |-> op, hdr |-> hdr, id |-> id, body |-> body, uid |-> uid,
     status |-> out.status, msg |-> out.msg, detail |-> "", calls |-> out.calls,
     page |-> NoPage, fault |-> NoFault,
               method |-> "", route |-> ""]

\* generate_id() / uuid4(): an id not in use.  When the bound leaves none the
\* requests that would store a document are not issued; all others are.
Fresh(ids, items) == IF ids \ DOMAIN items = {} THEN {NoId} ELSE ids \ DOMAIN items

Init ==
    /\ secret \in {GoodKey, NoSecret}
    /\ problems = Empty
    /\ posts = Empty
    /\ comments = Empty
    /\ upvotes = Empty
    /\ proposals = Empty
    /\ tips = Empty
    /\ trail = <<>>
    /\ inflight = Empty
    /\ wallets = Empty
    /\ last = [op |-> "none", hdr |-> NoHeader, id |-> NoId, body |-> NoBody,
               uid |-> NoSub, status |-> 0, msg |-> "", detail |-> "",
               calls |-> <<>>, page |-> NoPage, fault |-> NoFault,
               method |-> "", route |-> ""]
    /\ pre = Stores

\* The step of a handler on one collection: out is its outcome, uid what
\* its guard returned.
StepProblems(op, h, id, body, uid, out) ==
    /\ problems' = out.items
    /\ last' = Last(op, h, id, body, uid, out)
    /\ pre' = Stores
    /\ UNCHANGED <<secret, posts, wallets, comments, upvotes, proposals, tips,
                   inflight>>

OnProblems(op, h, id, body, uid, out) ==
    /\ StepProblems(op, h, id, body, uid, out)
    /\ UNCHANGED trail

StepPosts(op, h, id, body, uid, out) ==
    /\ posts' = out.items
    /\ last' = Last(op, h, id, body, uid, out)
    /\ pre' = Stores
    /\ UNCHANGED <<secret, problems, wallets, comments, upvotes, proposals, tips,
                   inflight>>

OnPosts(op, h, id, body, uid, out) ==
    /\ StepPosts(op, h, id, body, uid, out)
    /\ UNCHANGED trail

OnWallets(op, h, id, body, uid, out) ==
    /\ wallets' = out.items
    /\ last' = Last(op, h, id, body, uid, out)
    /\ pre' = Stores
    /\ UNCHANGED <<secret, problems, posts, comments, upvotes, proposals, tips,
                   trail, inflight>>

OnComments(op, h, id, body, uid, out) ==
    /\ comments' = out.items
    /\ last' = Last(op, h, id, body, uid, out)
    /\ pre' = Stores
    /\ UNCHANGED <<secret, problems, posts, wallets, upvotes, proposals, tips,
                   trail, inflight>>

\* a create that has no id left to draw is not issued
Storable(id, out) == out.status = 201 => id # NoId

\* The handlers as steps, for the requests of a set: H is a set of headers,
\* R a set of pairs of a header and a body.
DeleteProblemOf(H) ==
    \E h \in H, id \in ProblemIds :
        OnProblems("delete_problem", h, id, NoBody,
                   get_authenticated_user_id(h, secret),
                   delete_problem(h, id, secret, problems))

UpdateProblemOf(R) ==
    \E r \in R, id \in ProblemIds :
        OnProblems("update_problem", r[1], id, r[2],
                   get_authenticated_user_id(r[1], secret),
                   update_problem(r[1], id, r[2], secret, problems))

CreateProblemOf(R) ==
    \E r \in R, id \in Fresh(ProblemIds, problems) :
        /\ Storable(id, create_problem(r[1], id, r[2], secret, problems))
        /\ OnProblems("create_problem", r[1], NoId, r[2],
                      get_authenticated_user_id(r[1], secret),
                      create_problem(r[1], id, r[2], secret, problems))

CreatePostOf(R) ==
    \E r \in R, id \in Fresh(PostIds, posts) :
        /\ Storable(id, create_post(r[1], id, r[2], secret, posts))
        /\ OnPosts("create_post", r[1], NoId, r[2],
                   authenticate_request(r[1], secret).uid,
                   create_post(r[1], id, r[2], secret, posts))

DeleteProblem == DeleteProblemOf(Headers)

UpdateProblem == UpdateProblemOf(Reqs(UpdateBodies, UpdateOk))

CreateProblem == CreateProblemOf(Reqs(CreateBodies, CreateOk))

CreatePost == CreatePostOf(Reqs(PostBodies, CreateOk))

DeletePost ==
    \E r \in IdReqs(PostIds) :
        OnPosts("delete_post", r[1], r[2], NoBody,
                authenticate_request(r[1], secret).uid,
                delete_post(r[1], r[2], secret, posts))

\* R: a set of pairs of a header and a wallet id
DeleteWalletOf(R) ==
    \E r \in R :
        OnWallets("delete_wallet", r[1], r[2], NoBody,
                  get_authenticated_user_id(r[1], secret),
                  delete_wallet(r[1], r[2], secret, wallets))

DeleteWallet == DeleteWalletOf(IdReqs(WalletIds))

\* GET with or without problemId, POST, and a method that is neither
CommentCalls(B) ==
    { <<"GET", p, NoBody>> : p \in ProblemIds \cup {NoId} } \cup
    { <<"POST", p, b>> : p \in ProblemIds \cup {NoId}, b \in B } \cup
    { <<"PUT", NoId, NoBody>> }

CommentReqs ==
    (Headers \X ({ <<"GET", p, NoBody>> : p \in ProblemIds } \cup
                  { <<"POST", p, CreateOk>> : p \in ProblemIds }))
    \cup (ValidHeaders \X CommentCalls(CommentBodies))

Comments ==
    \E r \in CommentReqs, id \in Fresh(CommentIds, comments) :
        /\ Storable(id, comments_main(r[1], r[2][1], r[2][2], id, r[2][3], secret, comments))
        /\ OnComments(r[2][1], r[1], r[2][2], r[2][3],
                      _get_supabase_user_id(r[1], secret).uid,
                      comments_main(r[1], r[2][1], r[2][2], id, r[2][3], secret, comments))

\* the containers dict of cosmos.py
Db == Containers(problems, upvotes, proposals, tips)

OnContainers(op, h, id, body, uid, out) ==
    /\ problems' = out.db.problems
    /\ upvotes' = out.db.upvotes
    /\ proposals' = out.db.proposals
    /\ tips' = out.db.tips
    /\ last' = Last(op, h, id, body, uid, out)
    /\ pre' = Stores
    /\ UNCHANGED <<secret, posts, wallets, comments, trail, inflight>>

\* the headers sent to the handlers below: each user's valid token, no
\* header, and an expired token
FewHeaders == ValidHeaders \cup {NoHeader, BearerHeader(ExpiredToken("U1"))}

\* every one of these headers with the well-formed body d, and every body of
\* B under a valid token of each user
FewReqs(B, d) == (FewHeaders \X {d}) \cup (ValidHeaders \X B)

\* the store calls of the handlers below that may raise
Faults == {"connect", "query_items", "create_item", "delete_item", "replace_item"}

\* a comments request during which one store call raises
CommentsFaulty ==
    \E r \in CommentReqs, id \in Fresh(CommentIds, comments), f \in Faults \cup {NoFault} :
        LET out == comments_main_faulty(r[1], r[2][1], r[2][2], id, r[2][3], f,
                                        secret, comments)
        IN  /\ Storable(id, out)
            /\ comments' = out.items
            /\ last' = [Last(r[2][1], r[1], r[2][2], r[2][3],
                              _get_supabase_user_id(r[1], secret).uid, out)
                          EXCEPT !.fault = f]
            /\ pre' = Stores
            /\ UNCHANGED <<secret, problems, posts, wallets, upvotes, proposals,
                           tips, trail, inflight>>

\* a delete of a problem during which one store call raises
DeleteProblemFaulty ==
    \E h \in FewHeaders, id \in ProblemIds, f \in Faults \cup {NoFault} :
        LET out == delete_problem_faulty(h, id, f, secret, problems)
        IN  /\ problems' = out.items
            /\ last' = [Last("delete_problem", h, id, NoBody,
                              get_authenticated_user_id(h, secret), out)
                          EXCEPT !.fault = f]
            /\ pre' = Stores
            /\ UNCHANGED <<secret, posts, wallets, comments, upvotes, proposals,
                           tips, trail, inflight>>

\* the highest count followed: a request that would leave a higher one is
\* not issued
MaxCount == 2

\* a request to one of the three handlers during which one store call raises
OnContainersFaulty(op, h, id, body, f, out) ==
    /\ \A i \in DOMAIN out.db.problems : Count(out.db.problems[i], "upvotes") <= MaxCount
    /\ problems' = out.db.problems
    /\ upvotes' = out.db.upvotes
    /\ proposals' = out.db.proposals
    /\ tips' = out.db.tips
    /\ last' = [Last(op, h, id, body, get_authenticated_user_id(h, secret), out)
                  EXCEPT !.fault = f]
    /\ pre' = Stores
    /\ UNCHANGED <<secret, posts, wallets, comments, trail, inflight>>

UpvoteProblemFaulty ==
    \E h \in FewHeaders, id \in ProblemIds, f \in Faults \cup {NoFault},
       aliased \in BOOLEAN :
        OnContainersFaulty("upvote_problem", h, id, NoBody, f,
                           upvote_problem_faulty(h, id, f, aliased, secret, Db))

RemoveUpvoteFaulty ==
    \E h \in FewHeaders, id \in ProblemIds, f \in Faults \cup {NoFault},
       aliased \in BOOLEAN :
        OnContainersFaulty("remove_upvote", h, id, NoBody, f,
                           remove_upvote_faulty(h, id, f, aliased, secret, Db))

CreateProposalFaulty ==
    \E h \in FewHeaders, id \in ProblemIds, new_id \in Fresh(ProposalIds, proposals),
       f \in Faults \cup {NoFault}, aliased \in BOOLEAN :
        LET out == create_proposal_faulty(h, id, new_id, CreateOk, f, aliased, secret, Db)
        IN  /\ (out.status = 201 \/ Calls(out, "create_item")) => new_id # NoId
            /\ OnContainersFaulty("create_proposal", h, id, CreateOk, f, out)

UpvoteProblem ==
    \E h \in FewHeaders, id \in ProblemIds :
        OnContainers("upvote_problem", h, id, NoBody,
                     get_authenticated_user_id(h, secret),
                     upvote_problem(h, id, secret, Db))

RemoveUpvote ==
    \E h \in FewHeaders, id \in ProblemIds :
        OnContainers("remove_upvote", h, id, NoBody,
                     get_authenticated_user_id(h, secret),
                     remove_upvote(h, id, secret, Db))

CreateProposal ==
    \E r \in FewReqs(ProposalBodies, CreateOk), id \in ProblemIds,
       new_id \in Fresh(ProposalIds, proposals) :
        /\ Storable(new_id, create_proposal(r[1], id, new_id, r[2], secret, Db))
        /\ OnContainers("create_proposal", r[1], id, r[2],
                        get_authenticated_user_id(r[1], secret),
                        create_proposal(r[1], id, new_id, r[2], secret, Db))

TipBuilder ==
    \E r \in FewReqs(TipBodies, TipOk), id \in ProposalIds, new_id \in Fresh(TipIds, tips) :
        /\ Storable(new_id, tip_builder(r[1], id, new_id, r[2], secret, Db))
        /\ OnContainers("tip_builder", r[1], id, r[2],
                        get_authenticated_user_id(r[1], secret),
                        tip_builder(r[1], id, new_id, r[2], secret, Db))

\* R: a set of pairs of a header and a body; ids: the ids of the table
WalletsPostOf(R, ids) ==
    \E r \in R, new_id \in Fresh(ids, wallets), inserted \in TableResults :
        /\ Storable(new_id, wallets_post(r[1], new_id, r[2], inserted, secret, wallets))
        /\ OnWallets("wallets_post", r[1], NoId, r[2],
                     get_authenticated_user_id(r[1], secret),
                     wallets_post(r[1], new_id, r[2], inserted, secret, wallets))

WalletsPost == WalletsPostOf(FewReqs(WalletBodies, WalletOk), WalletIds)

UpdatePost ==
    \E user_id \in Users, id \in PostIds, updates \in PostUpdates :
        OnPosts("update_post", NoHeader, id, updates, user_id,
                update_post(user_id, id, updates, posts))

GetProblemById ==
    \E id \in ProblemIds \cup {NoId} :
        OnProblems("get_problem_by_id", NoHeader, id, NoBody, NoSub,
                   get_problem_by_id(id, problems))

\* ------------------------------------------------------------------------
\* PythonFunction/__init__.py main and router.py main: the routers
\* ------------------------------------------------------------------------

Methods == {"GET", "POST", "PUT", "DELETE", "PATCH"}

\* Values of the 'route' parameter after .lower(), with the words among
\* 'search', 'user', 'problems', 'proposals' and 'tip' that occur in each as
\* substrings.
Words ==
    ("problems" :> {"problems"}) @@
    ("problems/{id}" :> {"problems"}) @@
    ("problems/{id}/upvote" :> {"problems"}) @@
    ("problems/{id}/proposals" :> {"problems", "proposals"}) @@
    ("problems/search" :> {"problems", "search"}) @@
    ("user/problems" :> {"user", "problems"}) @@
    ("proposals/{id}/tip" :> {"proposals", "tip"}) @@
    ("research" :> {"search"}) @@
    ("comments" :> {}) @@
    ("" :> {})

Routes == DOMAIN Words

RouteNotFound == "Route not found"

\* src/problem-hunt/python-function/PythonFunction/__init__.py main: the
\* handler a request is handed to
main(method, path) ==
    IF path = "problems" /\ method = "POST" THEN "create_problem"
    ELSE IF path = "problems" /\ method = "GET" THEN "get_problems"
    ELSE IF path = "problems/{id}" /\ method = "GET" THEN "get_problem_by_id"
    ELSE IF path = "problems/{id}" /\ method = "PUT" THEN "update_problem"
    ELSE IF path = "problems/{id}" /\ method = "DELETE" THEN "delete_problem"
    ELSE IF path = "problems/{id}/upvote" /\ method = "POST" THEN "upvote_problem"
    ELSE IF path = "problems/{id}/upvote" /\ method = "DELETE" THEN "remove_upvote"
    ELSE IF path = "problems/{id}/proposals" /\ method = "GET" THEN "get_proposals"
    ELSE IF path = "problems/{id}/proposals" /\ method = "POST" THEN "create_proposal"
    ELSE IF "search" \in Words[path] /\ method = "GET" THEN "search_problems"
    ELSE IF "user" \in Words[path] /\ "problems" \in Words[path] /\ method = "GET"
    THEN "get_user_problems"
    ELSE IF "proposals" \in Words[path] /\ "tip" \in Words[path] /\ method = "POST"
    THEN "tip_builder"
    ELSE RouteNotFound

\* src/python-function/router.py main
router_main(method, route) ==
    IF route = "problems" /\ method = "POST" THEN "create_problem"
    ELSE IF route = "problems" /\ method = "GET" THEN "get_problems"
    ELSE IF route = "problems/{id}" /\ method = "GET" THEN "get_problem_by_id"
    ELSE IF route = "problems/{id}" /\ method = "PUT" THEN "update_problem"
    ELSE IF route = "problems/{id}" /\ method = "DELETE" THEN "delete_problem"
    ELSE IF route = "problems/{id}/upvote" /\ method = "POST" THEN "upvote_problem"
    ELSE IF route = "problems/{id}/upvote" /\ method = "DELETE" THEN "remove_upvote"
    ELSE IF route = "problems/{id}/proposals" /\ method = "GET" THEN "get_proposals"
    ELSE IF route = "problems/{id}/proposals" /\ method = "POST" THEN "create_proposal"
    ELSE IF route = "problems/search" /\ method = "GET" THEN "search_problems"
    ELSE IF route = "user/problems" /\ method = "GET" THEN "get_user_problems"
    ELSE RouteNotFound

Routers == {"main", "router_main"}

Routed(router, method, route) ==
    IF router = "main" THEN main(method, route) ELSE router_main(method, route)

\* The handler's outcome for a routed request: h, id and body are the
\* request's header, 'id' route parameter and body.  The handlers that work
\* on the problems container alone are followed here.
Dispatch(handler, h, id, new_id, body) ==
    IF handler = "create_problem" THEN create_problem(h, new_id, body, secret, problems)
    ELSE IF handler = "delete_problem" THEN delete_problem(h, id, secret, problems)
    ELSE IF handler = "get_problem_by_id" THEN get_problem_by_id(id, problems)
    ELSE Outcome(404, RouteNotFound, <<>>, problems)

Dispatched == {"create_problem", "delete_problem", "get_problem_by_id", RouteNotFound}

\* a request to one of the routers
Route ==
    \E router \in Routers, method \in Methods, route \in Routes,
       h \in FewHeaders, id \in ProblemIds, new_id \in Fresh(ProblemIds, problems) :
        LET handler == Routed(router, method, route)
            body == IF handler = "create_problem" THEN CreateOk ELSE NoBody
            out == Dispatch(handler, h, id, new_id, body)
        IN  /\ handler \in Dispatched
            /\ Storable(new_id, out)
            /\ problems' = out.items
            /\ last' = [Last(IF handler = RouteNotFound THEN router ELSE handler,
                              h, id, body, get_authenticated_user_id(h, secret), out)
                          EXCEPT !.method = method, !.route = route]
            /\ pre' = Stores
            /\ UNCHANGED <<secret, posts, wallets, comments, upvotes, proposals,
                           tips, trail, inflight>>

\* ------------------------------------------------------------------------
\* Sequences of requests
\* ------------------------------------------------------------------------

\* lengths of the sequences followed
MaxTrail == 4

TwiceLen == 2

\* the owner field of the document stored under id, NoSub when there is none
StoredOwner(items, id) ==
    IF id \notin DOMAIN items THEN NoSub
    ELSE IF "authorId" \in DOMAIN items[id] THEN items[id].authorId
    ELSE items[id].user_id

\* A request as the trail keeps it: id is the id addressed or created, before
\* and owner the owner of the document under that id when the request
\* arrives and when the response is sent.
Entry(op, uid, id, items, out) ==
    [op |-> op, uid |-> uid, id |-> id, status |-> out.status,
     before |-> StoredOwner(items, id), owner |-> StoredOwner(out.items, id)]

\* the trail keeps the latest n requests
Log(n, e) ==
    trail' = IF Len(trail) < n THEN Append(trail, e) ELSE Append(Tail(trail), e)

\* the headers of the requests that are followed
TrailHeaders == ValidHeaders \cup {NoHeader}

TrailCreateProblem(n) ==
    \E h \in TrailHeaders, id \in Fresh(ProblemIds, problems) :
        LET uid == get_authenticated_user_id(h, secret)
            out == create_problem(h, id, CreateOk, secret, problems)
        IN  /\ Storable(id, out)
            /\ StepProblems("create_problem", h, NoId, CreateOk, uid, out)
            /\ Log(n, Entry("create_problem", uid, id, problems, out))

TrailDeleteProblem(n) ==
    \E h \in TrailHeaders, id \in ProblemIds :
        LET uid == get_authenticated_user_id(h, secret)
            out == delete_problem(h, id, secret, problems)
        IN  /\ StepProblems("delete_problem", h, id, NoBody, uid, out)
            /\ Log(n, Entry("delete_problem", uid, id, problems, out))

TrailGetProblemById(n) ==
    \E id \in ProblemIds :
        LET out == get_problem_by_id(id, problems)
        IN  /\ StepProblems("get_problem_by_id", NoHeader, id, NoBody, NoSub, out)
            /\ Log(n, Entry("get_problem_by_id", NoSub, id, problems, out))

TrailCreatePost(n) ==
    \E h \in TrailHeaders, id \in Fresh(PostIds, posts) :
        LET uid == authenticate_request(h, secret).uid
            out == create_post(h, id, CreateOk, secret, posts)
        IN  /\ Storable(id, out)
            /\ StepPosts("create_post", h, NoId, CreateOk, uid, out)
            /\ Log(n, Entry("create_post", uid, id, posts, out))

TrailDeletePost(n) ==
    \E h \in TrailHeaders, id \in PostIds :
        LET uid == authenticate_request(h, secret).uid
            out == delete_post(h, id, secret, posts)
        IN  /\ StepPosts("delete_post", h, id, NoBody, uid, out)
            /\ Log(n, Entry("delete_post", uid, id, posts, out))

\* ------------------------------------------------------------------------
\* Listings
\* ------------------------------------------------------------------------

\* documents a listing can find
MaxListed == 3

ListedIds == 1 .. MaxListed

\* the integers that int() makes of the limit and offset parameters
Limits == {-1, 0, 1, 2, 1000}

Offsets == {-5, 0, 1}

\* VALID_CHAINS: the chain of the wallet stored under an id of a listing
ChainList == <<"ethereum", "solana", "polygon", "arbitrum">>

\* the address of the row stored under an id of a listing
AddressList == <<"a1", "a2", "a3", "a4">>

\* Stores that hold up to MaxListed problems, posts, proposals and wallets of
\* the two users, as creates by them leave them.
InitPages ==
    /\ secret \in {GoodKey, NoSecret}
    /\ \E S \in SUBSET ListedIds : \E owner \in [S -> Users] :
        /\ problems = [i \in S |-> [authorId |-> owner[i], title |-> "t1",
                                     upvotes |-> 0, proposals |-> 1,
                                     category |-> "Web3", budget |-> Budget50,
                                     budgetValue |-> 50]]
        /\ posts = [i \in S |-> [user_id |-> owner[i], title |-> "t1"]]
        /\ proposals = [i \in S |-> [problemId |-> i, builderId |-> owner[i],
                                      title |-> "t1"]]
        /\ wallets = [i \in S |-> [user_id |-> owner[i], chain |-> ChainList[i],
                                    address |-> AddressList[i]]]
    /\ comments = Empty
    /\ upvotes = Empty
    /\ tips = Empty
    /\ trail = <<>>
    /\ inflight = Empty
    /\ last = [op |-> "none", hdr |-> NoHeader, id |-> NoId, body |-> NoBody,
               uid |-> NoSub, status |-> 0, msg |-> "", detail |-> "",
               calls |-> <<>>, page |-> NoPage, fault |-> NoFault,
               method |-> "", route |-> ""]
    /\ pre = Stores

\* VALID_CHAINS, two of them
Chains == {"ethereum", "solana"}

\* Wallet tables of up to MaxListed rows of the two users, as POSTs for
\* different chains and addresses leave them; nothing else is stored.
InitWalletRows ==
    /\ secret \in {GoodKey, NoSecret}
    /\ \E S \in SUBSET ListedIds : \E owner \in [S -> Users], chain \in [S -> Chains] :
           wallets = [i \in S |-> [user_id |-> owner[i], chain |-> chain[i],
                                    address |-> AddressList[i]]]
    /\ problems = Empty
    /\ posts = Empty
    /\ proposals = Empty
    /\ comments = Empty
    /\ upvotes = Empty
    /\ tips = Empty
    /\ trail = <<>>
    /\ inflight = Empty
    /\ last = [op |-> "none", hdr |-> NoHeader, id |-> NoId, body |-> NoBody,
               uid |-> NoSub, status |-> 0, msg |-> "", detail |-> "",
               calls |-> <<>>, page |-> NoPage, fault |-> NoFault,
               method |-> "", route |-> ""]
    /\ pre = Stores

StepList(op, h, uid, out) ==
    /\ last' = [Last(op, h, NoId, NoBody, uid, out) EXCEPT !.page = out.page]
    /\ pre' = Stores
    /\ UNCHANGED <<secret, problems, posts, wallets, comments, upvotes, proposals,
                   tips, trail, inflight>>

GetProblems ==
    \E limit \in Limits, offset \in Offsets :
        StepList("get_problems", NoHeader, NoSub, get_problems(limit, offset, problems))

GetUserProblems ==
    \E h \in TrailHeaders, limit \in Limits, offset \in Offsets :
        StepList("get_user_problems", h, get_authenticated_user_id(h, secret),
                 get_user_problems(h, limit, offset, secret, problems))

GetPosts ==
    \E h \in TrailHeaders, limit \in Limits, offset \in Offsets :
        StepList("get_posts", h, authenticate_request(h, secret).uid,
                 get_posts(h, limit, offset, secret, posts))

GetUserProposals ==
    \E h \in TrailHeaders :
        StepList("get_user_proposals", h, get_authenticated_user_id(h, secret),
                 get_user_proposals(h, secret, proposals))

WalletsGet ==
    \E h \in TrailHeaders :
        StepList("wallets_get", h, get_authenticated_user_id(h, secret),
                 wallets_get(h, secret, wallets))

GetLeaderboard ==
    \E limit \in Limits :
        StepList("get_leaderboard", NoHeader, NoSub, get_leaderboard(limit, proposals))

\* ------------------------------------------------------------------------
\* handlers/upvote_problem.py, requests handled at the same time
\* ------------------------------------------------------------------------

\* upvote requests that can be in progress together
MaxInflight == 2

RaceIds == 1 .. MaxInflight

\* an atomic increment of the stored count
IncrementedInPlace(seen, stored) == stored + 1

\* problem.get('upvotes', 0) + 1: seen is the value that get returned, stored
\* the value in the dict when the result is assigned
Incremented(seen, stored) == seen + 1

\* A request in progress: pc is the statement it executes next, seen the
\* count it read, status its response once pc is "done".
Inflight(uid, id, pc, seen, status) ==
    [uid |-> uid, id |-> id, pc |-> pc, seen |-> seen, status |-> status]

RaceStep(p, r) ==
    /\ inflight' = Put(inflight, p, r)
    /\ UNCHANGED <<secret, posts, wallets, comments, proposals, tips, trail, last, pre>>

\* lines 11-35: the guard and the query for the problem.  The query returns
\* the stored dict itself, so the request holds the problem by its id.
RaceBegin ==
    \E p \in RaceIds \ DOMAIN inflight, h \in ValidHeaders, id \in ProblemIds :
        LET user_id == get_authenticated_user_id(h, secret) IN
        /\ RaceStep(p, IF Falsy(user_id) THEN Inflight(NoSub, id, "done", 0, 401)
                       ELSE IF QueryById(problems, id) = {}
                       THEN Inflight(user_id, id, "done", 0, 404)
                       ELSE Inflight(user_id, id, "check", 0, 0))
        /\ UNCHANGED <<problems, upvotes>>

\* lines 37-51: the query for an upvote of the caller
RaceCheck ==
    \E p \in DOMAIN inflight :
        LET r == inflight[p] IN
        /\ r.pc = "check"
        /\ RaceStep(p, IF QueryById(upvotes, upvote_id(r.id, r.uid)) # {}
                       THEN [r EXCEPT !.pc = "done", !.status = 409]
                       ELSE [r EXCEPT !.pc = "create"])
        /\ UNCHANGED <<problems, upvotes>>

\* lines 53-61: create_item of the upvote record
RaceCreate ==
    \E p \in DOMAIN inflight :
        LET r == inflight[p] IN
        /\ r.pc = "create"
        /\ upvotes' = Put(upvotes, upvote_id(r.id, r.uid),
                          [problemId |-> r.id, userId |-> r.uid])
        /\ RaceStep(p, [r EXCEPT !.pc = "read"])
        /\ UNCHANGED problems

\* line 64, right-hand side: problem.get('upvotes', 0)
RaceRead ==
    \E p \in DOMAIN inflight :
        LET r == inflight[p] IN
        /\ r.pc = "read"
        /\ RaceStep(p, [r EXCEPT !.pc = "write",
                                 !.seen = Count(problems[r.id], "upvotes")])
        /\ UNCHANGED <<problems, upvotes>>

\* line 64, assignment: the dict is the stored one, so the store shows the
\* new count at once
RaceWrite ==
    \E p \in DOMAIN inflight :
        LET r == inflight[p] IN
        /\ r.pc = "write"
        /\ problems' = [problems EXCEPT ![r.id].upvotes =
                            Incremented(r.seen, Count(problems[r.id], "upvotes"))]
        /\ RaceStep(p, [r EXCEPT !.pc = "replace"])
        /\ UNCHANGED upvotes

\* lines 67-76: replace_item puts the same dict under its id; 200
RaceReplace ==
    \E p \in DOMAIN inflight :
        LET r == inflight[p] IN
        /\ r.pc = "replace"
        /\ RaceStep(p, [r EXCEPT !.pc = "done", !.status = 200])
        /\ UNCHANGED <<problems, upvotes>>

\* ------------------------------------------------------------------------
\* handlers/delete_problem.py: requests that overlap
\* ------------------------------------------------------------------------

DeleteStep(p, r) ==
    /\ inflight' = Put(inflight, p, r)
    /\ UNCHANGED <<secret, posts, wallets, comments, upvotes, proposals, tips,
                   trail, last, pre>>

\* lines 11-43: the guard, the query for the problem and the ownership test
DeleteBegin ==
    \E p \in RaceIds \ DOMAIN inflight, h \in ValidHeaders, id \in ListedIds :
        LET user_id == get_authenticated_user_id(h, secret) IN
        /\ DeleteStep(p, IF Falsy(user_id) THEN Inflight(NoSub, id, "done", 0, 401)
                         ELSE IF QueryById(problems, id) = {}
                         THEN Inflight(user_id, id, "done", 0, 404)
                         ELSE IF problems[id].authorId # user_id
                         THEN Inflight(user_id, id, "done", 0, 403)
                         ELSE Inflight(user_id, id, "delete_item", 0, 0))
        /\ UNCHANGED problems

\* lines 46-65: delete_item, which raises CosmosResourceNotFoundError when
\* the item is not in the container (cosmos.py 129-134); the except clause
\* of the handler answers 500
DeleteItem ==
    \E p \in DOMAIN inflight :
        LET r == inflight[p] IN
        /\ r.pc = "delete_item"
        /\ problems' = Remove(problems, r.id)
        /\ DeleteStep(p, [r EXCEPT !.pc = "done",
                                    !.status = IF r.id \in DOMAIN problems
                                               THEN 200 ELSE 500])

\* ------------------------------------------------------------------------
\* Wallets/__init__.py, POST: requests that overlap
\* ------------------------------------------------------------------------

Addresses == {"a1", "a2"}

\* A POST in progress: pc is the table call it makes next, status its
\* response once pc is "done", at its place among the requests that are done.
WalletPost(uid, chain, address, pc, status, at) ==
    [uid |-> uid, chain |-> chain, address |-> address, pc |-> pc,
     status |-> status, at |-> at]

\* the requests that have been answered
Answered == {p \in DOMAIN inflight : inflight[p].pc = "done"}

PostStep(p, r) ==
    /\ inflight' = Put(inflight, p, r)
    /\ UNCHANGED <<secret, problems, posts, comments, upvotes, proposals, tips,
                   trail, last, pre>>

\* lines 57-93: the guard and the validation of a well-formed body
PostBegin ==
    \E p \in RaceIds \ DOMAIN inflight, h \in ValidHeaders, chain \in Chains,
       address \in Addresses :
        LET user_id == get_authenticated_user_id(h, secret) IN
        /\ PostStep(p, IF Falsy(user_id)
                       THEN WalletPost(NoSub, chain, address, "done", 401,
                                       Cardinality(Answered) + 1)
                       ELSE WalletPost(user_id, chain, address, "delete", 0, 0))
        /\ UNCHANGED wallets

\* line 99: the delete of the caller's rows for the chain, which may raise
PostDelete ==
    \E p \in DOMAIN inflight, raises \in BOOLEAN :
        LET r == inflight[p] IN
        /\ r.pc = "delete"
        /\ wallets' = IF raises THEN wallets ELSE WithoutChain(wallets, r.uid, r.chain)
        /\ PostStep(p, IF raises
                       THEN [r EXCEPT !.pc = "done", !.status = 500,
                                      !.at = Cardinality(Answered) + 1]
                       ELSE [r EXCEPT !.pc = "insert"])

\* lines 101-117: the insert and the response
PostInsert ==
    \E p \in DOMAIN inflight, new_id \in Fresh(ListedIds, wallets),
       inserted \in TableResults \ {"delete raises"} :
        LET r == inflight[p] IN
        /\ r.pc = "insert"
        /\ inserted = "ok" => new_id # NoId
        /\ wallets' = IF inserted = "ok"
                      THEN Put(wallets, new_id,
                               [user_id |-> r.uid, chain |-> r.chain,
                                address |-> r.address])
                      ELSE wallets
        /\ PostStep(p, [r EXCEPT !.pc = "done",
                                 !.status = IF inserted = "ok" THEN 201
                                            ELSE IF inserted = "23505" THEN 409
                                            ELSE 500,
                                 !.at = Cardinality(Answered) + 1])

Next ==
    \/ DeleteProblem
    \/ UpdateProblem
    \/ CreateProblem
    \/ CreatePost
    \/ DeletePost
    \/ WalletsPost
    \/ DeleteWallet
    \/ Comments
    \/ GetProblemById
    \/ UpvoteProblem
    \/ RemoveUpvote
    \/ CreateProposal
    \/ TipBuilder
    \/ UpdatePost
    \/ GetProblems
    \/ GetUserProblems
    \/ GetPosts
    \/ GetLeaderboard

\* every handler, one request at a time
Spec == Init /\ [][Next]_vars

\* the handlers of one collection each
NextProblems == DeleteProblem \/ UpdateProblem \/ CreateProblem

SpecProblems == Init /\ [][NextProblems]_vars

NextPosts == CreatePost \/ DeletePost

SpecPosts == Init /\ [][NextPosts]_vars

NextWallets == WalletsPost \/ DeleteWallet

SpecWallets == Init /\ [][NextWallets]_vars

NextComments == Comments

\* comments and deletes of problems with store calls that raise
NextFaults ==
    \/ CommentsFaulty
    \/ DeleteProblemFaulty
    \/ CreateProblemOf(FewReqs({}, CreateOk))

SpecFaults == Init /\ [][NextFaults]_vars

\* wallet POSTs for either chain, one request at a time, over a table of up
\* to MaxListed rows
NextWalletPosts ==
    WalletsPostOf(FewReqs(WalletBodies \cup {WalletBody(c, "a1", "ok") : c \in Chains},
                          WalletOk),
                  ListedIds)

SpecWalletPosts == Init /\ [][NextWalletPosts]_vars

\* wallet POSTs that run table call by table call in any interleaving
NextWalletRace == PostBegin \/ PostDelete \/ PostInsert

SpecWalletRace == Init /\ [][NextWalletRace]_vars

\* problems are created, upvoted and un-upvoted, one request at a time
NextCounts ==
    \/ CreateProblemOf(FewReqs(CreateBodies, CreateOk))
    \/ UpvoteProblem
    \/ RemoveUpvote

SpecCounts == Init /\ [][NextCounts]_vars

\* deletes of problems that run store call by store call in any
\* interleaving, over stores of up to MaxListed problems
NextDeleteRace == DeleteBegin \/ DeleteItem

SpecDeleteRace == InitPages /\ [][NextDeleteRace]_vars

\* upvotes, removals of upvotes and proposals with store calls that raise
NextAtomic ==
    \/ CreateProblemOf(ValidHeaders \X {CreateOk})
    \/ UpvoteProblemFaulty
    \/ RemoveUpvoteFaulty
    \/ CreateProposalFaulty

SpecAtomic == Init /\ [][NextAtomic]_vars

\* create bodies with categories and budgets of several kinds
CreateFields ==
    { CreateOk,
      WithFields(CreateOk, "Other", Budget50),
      WithFields(CreateOk, "Finance", <<"1", "0", "-", "2", "0">>),
      WithFields(CreateOk, "Web3", <<"f", "r", "e", "e">>),
      WithFields(CreateOk, "Web3", NonStringBudget) }

\* update bodies that name a category, a budget or both
UpdateFields ==
    { UpdateOk,
      WithFields(UpdateOk, "Other", NoBudget),
      WithFields(UpdateOk, "Trading", NoBudget),
      WithFields(UpdateOk, Absent, <<"$", "7", "5", "/", "m", "o">>),
      WithFields(UpdateOk, Absent, <<"f", "r", "e", "e">>),
      WithFields(UpdateOk, Absent, NonStringBudget) }

\* problems are created and updated with these bodies
NextFields ==
    \/ CreateProblemOf(FewHeaders \X CreateFields)
    \/ UpdateProblemOf(FewHeaders \X UpdateFields)

SpecFields == Init /\ [][NextFields]_vars

\* requests to the two routers
NextRoutes == Route

SpecRoutes == Init /\ [][NextRoutes]_vars

SpecComments == Init /\ [][NextComments]_vars

\* the handlers on the containers of cosmos.py
NextVotes ==
    \/ CreateProblem
    \/ DeleteProblem
    \/ UpvoteProblem
    \/ RemoveUpvote

SpecVotes == Init /\ [][NextVotes]_vars

\* the calls that work on a record after its creation
NextOwners ==
    \/ CreateProblemOf(FewReqs({}, CreateOk))
    \/ UpdateProblemOf(FewReqs({WithOwner(UpdateOk, u) : u \in Users}, UpdateOk))
    \/ UpvoteProblem
    \/ RemoveUpvote
    \/ CreateProposal
    \/ CreatePostOf(FewReqs({}, CreateOk))
    \/ UpdatePost

SpecOwners == Init /\ [][NextOwners]_vars

\* the handlers that validate a body or an owner before they write
NextFailFast ==
    \/ CreateProblemOf(FewReqs(CreateBodies, CreateOk))
    \/ UpdateProblemOf(FewReqs(UpdateBodies, UpdateOk))
    \/ DeleteProblemOf(ValidHeaders)
    \/ CreateProposal
    \/ TipBuilder
    \/ WalletsPost

SpecFailFast == Init /\ [][NextFailFast]_vars

\* creates and deletes of problems and posts, the last two requests kept
NextTwice ==
    \/ TrailCreateProblem(TwiceLen)
    \/ TrailDeleteProblem(TwiceLen)
    \/ TrailCreatePost(TwiceLen)
    \/ TrailDeletePost(TwiceLen)

SpecTwice == Init /\ [][NextTwice]_vars

\* create, delete and get of problems, the last four requests kept
NextScenario ==
    \/ TrailCreateProblem(MaxTrail)
    \/ TrailDeleteProblem(MaxTrail)
    \/ TrailGetProblemById(MaxTrail)

SpecScenario == Init /\ [][NextScenario]_vars

\* a problem is created, then upvote requests run statement by statement in
\* any interleaving
NextRace ==
    \/ CreateProblemOf(ValidHeaders \X {CreateOk})
    \/ RaceBegin
    \/ RaceCheck
    \/ RaceCreate
    \/ RaceRead
    \/ RaceWrite
    \/ RaceReplace

SpecRace == Init /\ [][NextRace]_vars

\* the listings, over stores of up to MaxListed documents
NextPages ==
    \/ GetProblems
    \/ GetUserProblems
    \/ GetPosts
    \/ GetLeaderboard
    \/ GetUserProposals
    \/ WalletsGet

SpecPages == InitPages /\ [][NextPages]_vars

\* deletes of wallets, over tables of up to MaxListed rows
NextWalletRows ==
    DeleteWalletOf((FewHeaders \X ListedIds) \cup (ValidHeaders \X {NoId}))

SpecWalletRows == InitWalletRows /\ [][NextWalletRows]_vars

\* ------------------------------------------------------------------------
\* The guards on their own
\* ------------------------------------------------------------------------

Verdict(op, h, a) ==
    [op |-> op, hdr |-> h, id |-> NoId, body |-> NoBody, uid |-> a.uid,
     status |-> IF a.ok THEN 200 ELSE 401, msg |-> a.cls, detail |-> a.detail,
     calls |-> <<>>, page |-> NoPage]

VerifyShared ==
    \E h \in AllHeaders :
        /\ last' = Verdict("authenticate_request", h, authenticate_request(h, secret))
        /\ pre' = Stores
        /\ UNCHANGED <<secret, problems, posts, wallets, comments, upvotes,
                       proposals, tips, trail, inflight>>

VerifyUtils ==
    \E h \in AllHeaders :
        LET uid == get_authenticated_user_id(h, secret) IN
        /\ last' = Verdict("get_authenticated_user_id", h,
                           IF Falsy(uid) THEN AuthErr("None", "") ELSE AuthOk(uid))
        /\ pre' = Stores
        /\ UNCHANGED <<secret, problems, posts, wallets, comments, upvotes,
                       proposals, tips, trail, inflight>>

VerifySupabase ==
    \E h \in AllHeaders :
        /\ last' = Verdict("_get_supabase_user_id", h, _get_supabase_user_id(h, secret))
        /\ pre' = Stores
        /\ UNCHANGED <<secret, problems, posts, wallets, comments, upvotes,
                       proposals, tips, trail, inflight>>

NextAuth == VerifyShared \/ VerifyUtils \/ VerifySupabase

SpecAuth == Init /\ [][NextAuth]_vars

\* ------------------------------------------------------------------------
\* Properties of the last request handled
\* ------------------------------------------------------------------------

Handled == last.op # "none"

Issued(call) == \E i \in DOMAIN last.calls : last.calls[i] = call

\* the header is the word Bearer, one blank, one token
IsBearerToken(h) ==
    Len(h) = 3 /\ h[1].k = "Bearer" /\ IsSp(h[2]) /\ h[3].k = "tok"

TokenOf(h) == IF IsBearerToken(h) THEN h[3].t ELSE Garbage

\* the header carries a well-formed HS256 token signed with the configured secret
SignedHere(h) ==
    /\ IsBearerToken(h)
    /\ TokenOf(h).wf
    /\ TokenOf(h).alg = "HS256"
    /\ TokenOf(h).key = secret

\* not exactly two blank-separated parts of which the first is Bearer in any case
Malformed(h) ==
    LET parts == Split(h) IN Len(parts) # 2 \/ ~LowerIsBearer(parts[1])

ProblemMutations == {"delete_problem", "update_problem"}

\* an identified caller addressed a problem that was stored
Addressed ==
    /\ last.op \in ProblemMutations
    /\ last.uid \in Users
    /\ last.id \in DOMAIN pre.problems

Author == pre.problems[last.id].authorId

BodyParsed == last.op = "update_problem" => last.body.kind # "notjson"

BodyTyped ==
    last.op = "update_problem" => last.body.title # NonString /\ last.body.rest = "ok"

\* the delete or the replace the request asked for has been applied
Applied ==
    IF last.op = "delete_problem"
    THEN Issued("delete_item") /\ problems = Remove(pre.problems, last.id)
    ELSE /\ Issued("replace_item")
         /\ problems = IF last.body.title = Absent THEN pre.problems
                       ELSE [pre.problems EXCEPT
                                ![last.id].title = StripText(last.body.title)]

WriteIssued == Issued("delete_item") \/ Issued("replace_item")

\* C1 as the specification states it: on delete_problem and update_problem
\* a caller who is not the author gets 403 and the problems are as they
\* were; the author gets 200 and the delete or replace is applied.
OwnerGateAsStated ==
    Addressed =>
        IF Author # last.uid
        THEN last.status = 403 /\ problems = pre.problems
        ELSE last.status = 200 /\ Applied

\* C1: on delete_problem and update_problem the problems are as they were
\* whenever the caller is not the author, and the answer is 403 unless the
\* body of an update does not parse; the author gets 200 with the delete or
\* replace applied whenever the body of an update parses and its fields have
\* the types the handler expects.
OwnerGate ==
    Addressed =>
        IF Author # last.uid
        THEN problems = pre.problems /\ (BodyParsed => last.status = 403)
        ELSE (BodyParsed /\ BodyTyped) => (last.status = 200 /\ Applied)

\* C1: a caller who is not the author has asked for an update and got 403
OwnerGateWitness ==
    /\ Addressed
    /\ last.op = "update_problem"
    /\ Author # last.uid
    /\ last.status = 403
    /\ problems = pre.problems

\* C2 as the specification states it: token, then existence, then owner,
\* then the write: no identity gives 401 even when the problem is absent; an
\* identity and an absent problem give 404; another author's problem gives
\* 403; delete_item / replace_item is issued only when all three passed.
OutcomeOrderAsStated ==
    last.op \in ProblemMutations =>
        /\ (last.uid \notin Users) => last.status = 401
        /\ (last.uid \in Users /\ last.id \notin DOMAIN pre.problems)
               => last.status = 404
        /\ (Addressed /\ Author # last.uid) => last.status = 403
        /\ WriteIssued => (Addressed /\ Author = last.uid)

\* C2: the same order, where 404 and 403 are the answers to a request whose
\* body parses (update_problem reads the body after the token and before
\* the fetch): no identity gives 401 with no store call; the write is
\* issued, and the problems differ, only when all three checks passed.
OutcomeOrder ==
    last.op \in ProblemMutations =>
        /\ (last.uid \notin Users) => (last.status = 401 /\ last.calls = <<>>)
        /\ (last.uid \in Users /\ last.id \notin DOMAIN pre.problems /\ BodyParsed)
               => last.status = 404
        /\ (Addressed /\ Author # last.uid /\ BodyParsed) => last.status = 403
        /\ (WriteIssued \/ problems # pre.problems)
               => (Addressed /\ Author = last.uid)

\* C2: a request without identity for a problem that is not stored got 401
OutcomeOrderWitness ==
    /\ last.op = "update_problem"
    /\ last.uid \notin Users
    /\ last.id \notin DOMAIN pre.problems
    /\ last.status = 401

OwnerGatedDeletes == {"delete_problem", "delete_post", "delete_wallet"}

\* the collection a delete works on, as it was before the request
Target ==
    IF last.op = "delete_problem" THEN pre.problems
    ELSE IF last.op = "delete_post" THEN pre.posts
    ELSE pre.wallets

OwnerOf(doc) == IF last.op = "delete_problem" THEN doc.authorId ELSE doc.user_id

\* C3: on every owner-gated delete an identified caller who is not the
\* owner of a stored resource gets 403, and 404 is given only when no
\* resource with that id is stored.
NotFoundVsForbidden ==
    (last.op \in OwnerGatedDeletes /\ last.uid \in Users /\ last.id # NoId) =>
        /\ (last.id \in DOMAIN Target /\ OwnerOf(Target[last.id]) # last.uid)
               => last.status = 403
        /\ last.status = 404 => last.id \notin DOMAIN Target

\* C4: a request whose Authorization header is missing or not of the form
\* Bearer <token> is answered 401 and no store call is issued for it.
MalformedHeaderNoStoreCall ==
    (Handled /\ Malformed(last.hdr)) =>
        (last.status = 401 /\ last.calls = <<>> /\ Stores = pre)

\* C5: a request with an expired token that is signed with the configured
\* secret is answered 401 with the message that the token has expired, and
\* no store is changed.
ExpiredRejectedWithExpiryMessage ==
    (Handled /\ SignedHere(last.hdr) /\ TokenOf(last.hdr).expired) =>
        (last.status = 401 /\ last.msg = "TokenExpired" /\ Stores = pre)

\* a verification by validate_jwt of a well-formed token signed with a
\* secret other than the configured one
ForeignKeyVerified ==
    /\ last.op = "authenticate_request"
    /\ secret # NoSecret
    /\ IsBearerToken(last.hdr)
    /\ TokenOf(last.hdr).wf
    /\ TokenOf(last.hdr).key # secret

InvalidSignature ==
    /\ last.status = 401
    /\ last.msg = "InvalidToken"
    /\ last.detail = "InvalidSignatureError"

\* C6 as the specification states it: every token signed with a secret
\* other than the configured one fails as an invalid signature and as
\* nothing else.
ForeignKeyAsStated == ForeignKeyVerified => InvalidSignature

\* C6: every HS256 token signed with a secret other than the configured one
\* fails as an invalid signature and as nothing else, whether or not it has
\* expired.
ForeignKey ==
    (ForeignKeyVerified /\ TokenOf(last.hdr).alg = "HS256") => InvalidSignature

\* C6: an expired HS256 token signed with another secret failed as an
\* invalid signature
ForeignKeyWitness ==
    /\ ForeignKeyVerified
    /\ TokenOf(last.hdr).alg = "HS256"
    /\ TokenOf(last.hdr).expired
    /\ InvalidSignature

\* C7: for a token signed with the configured secret, unexpired and with a
\* subject, authenticate_request returns exactly the subject.
SubjectReturned ==
    ( /\ last.op = "authenticate_request"
      /\ SignedHere(last.hdr)
      /\ ~TokenOf(last.hdr).expired
      /\ TokenOf(last.hdr).sub \in Users )
    => (last.status = 200 /\ last.uid = TokenOf(last.hdr).sub)

\* C8: a request with a correctly signed, unexpired token without a subject
\* (or with an empty one) is answered 401, and no stored record has an empty
\* or null owner.
NoSubjectRejected ==
    /\ ( /\ Handled
         /\ SignedHere(last.hdr)
         /\ ~TokenOf(last.hdr).expired
         /\ ~TokenOf(last.hdr).aud
         /\ TokenOf(last.hdr).sub \in {NoSub, EmptySub} )
       => last.status = 401
    /\ \A i \in DOMAIN problems : problems[i].authorId \notin {NoSub, EmptySub}
    /\ \A i \in DOMAIN posts : posts[i].user_id \notin {NoSub, EmptySub}
    /\ \A i \in DOMAIN wallets : wallets[i].user_id \notin {NoSub, EmptySub}
    /\ \A i \in DOMAIN comments : comments[i].userId \notin {NoSub, EmptySub}

Guards == {"authenticate_request", "get_authenticated_user_id", "_get_supabase_user_id"}

\* C9: each of the three guards refuses a token whose header declares an
\* algorithm other than HS256, or none, whatever its key, expiry and
\* payload: no identity is returned for it.
OnlyHS256 ==
    (last.op \in Guards /\ IsBearerToken(last.hdr) /\ TokenOf(last.hdr).alg # "HS256")
    => (last.status = 401 /\ last.uid = NoSub)

\* C9: a guard refused an unexpired token with a subject whose header
\* declares the algorithm none and that nothing else is wrong with
OnlyHS256Witness ==
    /\ last.op = "_get_supabase_user_id"
    /\ secret # NoSecret
    /\ IsBearerToken(last.hdr)
    /\ TokenOf(last.hdr).wf
    /\ TokenOf(last.hdr).alg = "none"
    /\ ~TokenOf(last.hdr).expired
    /\ ~TokenOf(last.hdr).aud
    /\ TokenOf(last.hdr).sub \in Users
    /\ last.status = 401

\* C10: with no signing secret configured, a request that carries a bearer
\* token is not answered with the 401 a bad, missing or expired token gets.
SecretNotConfiguredDistinct ==
    (Handled /\ secret = NoSecret /\ IsBearerToken(last.hdr)) => last.status # 401

\* every token the header holds is a valid token of some user, so that the
\* verifier accepts whatever part of the header a guard hands it
ValidTokensOnly(h) ==
    \A i \in DOMAIN h : h[i].k = "tok" => \E u \in Users : h[i].t = ValidToken(u)

\* C11: each guard accepts a header exactly when it consists of two
\* blank-separated parts of which the first is Bearer in any case, and the
\* identity it returns is that of the second part.
GuardsAcceptSameHeaders ==
    (last.op \in Guards /\ secret # NoSecret /\ ValidTokensOnly(last.hdr)) =>
        /\ (last.status = 200) <=> ~Malformed(last.hdr)
        /\ last.status = 200 => last.uid = Split(last.hdr)[2][1].t.sub

\* the calls that work on a stored record without creating or deleting it
RecordUpdates ==
    {"update_problem", "upvote_problem", "remove_upvote", "create_proposal",
     "update_post"}

\* C12: a call that updates a problem, upvotes it, removes an upvote, creates a
\* proposal for it or updates a post leaves every stored problem under its id
\* with its authorId and every stored post under its id with its user_id,
\* whoever calls and whatever owner the body names.
OwnerImmutable ==
    last.op \in RecordUpdates =>
        /\ DOMAIN problems = DOMAIN pre.problems
        /\ DOMAIN posts = DOMAIN pre.posts
        /\ \A i \in DOMAIN pre.problems : problems[i].authorId = pre.problems[i].authorId
        /\ \A i \in DOMAIN pre.posts : posts[i].user_id = pre.posts[i].user_id

\* a post has been updated with a dict that names another user as its owner
OwnerImmutableWitness ==
    /\ last.op = "update_post"
    /\ last.msg = "updated"
    /\ last.body.owner \in Users \ {last.uid}
    /\ posts # pre.posts

\* C13: a request answered with 400, 401 or 403 leaves every collection as it
\* was before the request and has issued no write.
FailFast ==
    last.status \in {400, 401, 403} =>
        /\ Stores = pre
        /\ \A i \in DOMAIN last.calls :
               last.calls[i] \in {"query_items", "read_item", "select"}

\* a wallet request of a user who has a wallet is refused for its address
FailFastWitness ==
    /\ last.op = "wallets_post"
    /\ last.status = 400
    /\ last.body.rest = "badaddress"
    /\ \E i \in DOMAIN wallets : wallets[i].user_id = last.uid

\* an upvote request that found the problem and an upvote record of the
\* caller for it
SecondUpvote ==
    /\ last.op = "upvote_problem"
    /\ last.uid \in Users
    /\ last.id \in DOMAIN pre.problems
    /\ upvote_id(last.id, last.uid) \in DOMAIN pre.upvotes

\* C14: the upvote records of a problem are one per caller, stored under the
\* pair of problem and caller; an upvote by a caller who has a record for the
\* problem is answered 409 and changes neither the upvote records nor the
\* problem.
OneUpvotePerCaller ==
    /\ \A k \in DOMAIN upvotes :
           k = upvote_id(upvotes[k].problemId, upvotes[k].userId)
    /\ SecondUpvote =>
           /\ last.status = 409
           /\ upvotes = pre.upvotes
           /\ problems = pre.problems

\* the second upvote of a caller on a problem whose count is 1
OneUpvotePerCallerWitness ==
    /\ SecondUpvote
    /\ last.status = 409
    /\ problems[last.id].upvotes = 1

Deletes == {"delete_problem", "delete_post"}

\* the collection a delete of the trail works on, before the last request
Deleted(op) == IF op = "delete_problem" THEN pre.problems ELSE pre.posts

\* the n-th of the latest requests, the latest being the first
Latest(n) == trail[Len(trail) + 1 - n]

\* the last two requests are the same delete by the owner of its target
DeletedTwice ==
    /\ Len(trail) >= 2
    /\ Latest(2).op \in Deletes
    /\ Latest(2).uid \in Users
    /\ Latest(2).before = Latest(2).uid
    /\ Latest(1).op = Latest(2).op
    /\ Latest(1).id = Latest(2).id
    /\ Latest(1).uid = Latest(2).uid

\* C15: a delete by an authenticated caller of an id under which nothing is
\* stored is answered 404, no delete of such an id is answered 500, and of
\* two deletes in a row of a stored resource by its owner the first is
\* answered 200, the second 404, and the second changes no collection.
DeleteTwice ==
    /\ (last.op \in Deletes /\ last.id \notin DOMAIN Deleted(last.op)) =>
           /\ last.status # 500
           /\ last.uid \in Users => last.status = 404
    /\ DeletedTwice =>
           /\ Latest(2).status = 200
           /\ Latest(1).status = 404
           /\ Stores = pre

\* a post has been deleted twice in a row by its owner
DeleteTwiceWitness ==
    /\ DeletedTwice
    /\ Latest(1).op = "delete_post"
    /\ Latest(1).status = 404
    /\ posts = Empty

\* the last four requests: a create by a user, a delete of the created problem
\* by the other user, a delete of it by the creator, a get of it
ScenarioA ==
    /\ Len(trail) >= 4
    /\ Latest(4).op = "create_problem"
    /\ Latest(4).uid \in Users
    /\ Latest(4).id # NoId
    /\ Latest(3).op = "delete_problem"
    /\ Latest(3).id = Latest(4).id
    /\ Latest(3).uid \in Users \ {Latest(4).uid}
    /\ Latest(2).op = "delete_problem"
    /\ Latest(2).id = Latest(4).id
    /\ Latest(2).uid = Latest(4).uid
    /\ Latest(1).op = "get_problem_by_id"
    /\ Latest(1).id = Latest(4).id

\* C16: a create with every required field by U1 is answered 201 and stores
\* the problem with owner U1; the delete by another user that follows is
\* answered 403 and leaves the problem stored; the delete by U1 that follows
\* is answered 200; the get of that id that follows is answered 404.
CreateDeleteGet ==
    ScenarioA =>
        /\ Latest(4).status = 201
        /\ Latest(4).owner = Latest(4).uid
        /\ Latest(3).status = 403
        /\ Latest(3).owner = Latest(4).uid
        /\ Latest(2).status = 200
        /\ Latest(2).owner = NoSub
        /\ Latest(1).status = 404

\* the sequence has been run to its end
CreateDeleteGetWitness ==
    /\ ScenarioA
    /\ Latest(1).status = 404
    /\ problems = Empty

\* the requests that have assigned a count to the problem stored under id
Wrote(id) ==
    {p \in DOMAIN inflight : inflight[p].id = id /\ inflight[p].pc \in {"replace", "done"}
                             /\ inflight[p].status \in {0, 200}}

\* the upvote records of the problem stored under id
Records(id) == {k \in DOMAIN upvotes : upvotes[k].problemId = id}

\* two requests of two identities for one problem have both answered 200
BothUpvoted(p, q) ==
    /\ p \in DOMAIN inflight
    /\ q \in DOMAIN inflight
    /\ inflight[p].uid # inflight[q].uid
    /\ inflight[p].id = inflight[q].id
    /\ inflight[p].status = 200
    /\ inflight[q].status = 200

\* C17: the last writer wins and nothing is locked: the count a request
\* assigns is the count it read plus one, whatever was assigned in between;
\* so when upvote requests for one problem overlap, the stored count is at
\* least 1 and at most the number of requests that assigned it, and two
\* requests of two identities that both answer 200 leave two upvote records.
LastWriterWins ==
    /\ [](\A id \in DOMAIN problems :
            /\ problems[id].upvotes <= Cardinality(Wrote(id))
            /\ Wrote(id) # {} => problems[id].upvotes >= 1)
    /\ [](\A p, q \in RaceIds :
            BothUpvoted(p, q) => Cardinality(Records(inflight[p].id)) >= 2)
    /\ [][\A p \in DOMAIN inflight :
            (inflight[p].pc = "write" /\ inflight'[p].pc = "replace") =>
                problems'[inflight[p].id].upvotes = inflight[p].seen + 1]_vars

\* two requests of two identities have both answered 200 and the count, 1, is
\* below the number of upvote records, 2
LastWriterWinsWitness ==
    \E p, q \in RaceIds :
        /\ BothUpvoted(p, q)
        /\ problems[inflight[p].id].upvotes = 1
        /\ Cardinality(Records(inflight[p].id)) = 2

PagedListings == {"get_posts", "get_problems", "get_user_problems"}

\* C18: every listing of posts, problems or a user's problems cuts its page
\* with a limit between 1 and 100 and an offset of at least 0, and returns no
\* more than 100 items and no more than that limit.
LimitsClamped ==
    (last.op \in PagedListings /\ last.status = 200) =>
        /\ last.page.served_limit \in 1 .. 100
        /\ last.page.served_offset >= 0
        /\ Len(last.page.items) <= 100
        /\ Len(last.page.items) <= last.page.served_limit

TruncatedListings == PagedListings \cup {"get_leaderboard"}

\* C19: every listing's body carries total, limit and offset, total is the
\* number of matching records before the page is cut, limit and offset are
\* the values served, and the items are the segment from offset to
\* offset + limit of the filtered, sorted list.
PageDescribed ==
    (last.op \in TruncatedListings /\ last.status = 200) =>
        /\ last.page.keys = PagingKeys
        /\ last.page.total = Len(last.page.matching)
        /\ last.page.limit = last.page.served_limit
        /\ last.page.offset = last.page.served_offset
        /\ last.page.served_offset >= 0
        /\ last.page.served_limit >= 0
        /\ last.page.items =
               SubSeq(last.page.matching, last.page.served_offset + 1,
                      Min(last.page.served_offset + last.page.served_limit,
                          Len(last.page.matching)))

Creates == {"create_problem", "create_post"}

\* a required text field of the last request's body is absent or is empty
\* after trimming
TextMissing ==
    \/ last.body.title \in {Absent, Blank}
    \/ last.body.rest = "missing"

\* C20: a create whose title or other required text is absent or blank is
\* answered 400 and stores nothing, and no stored problem or post has an
\* empty title.
BlankRejected ==
    /\ (last.op \in Creates /\ last.uid \in Users /\ last.body.kind = "object"
            /\ TextMissing) =>
           (last.status = 400 /\ Stores = pre)
    /\ \A i \in DOMAIN problems : problems[i].title # ""
    /\ \A i \in DOMAIN posts : posts[i].title # ""

\* ------------------------------------------------------------------------
\* C21: wallets are deleted by their owner only
\* ------------------------------------------------------------------------

DeletesWallet == last.op = "delete_wallet"

\* the rows of the table before the request that the caller does not own
RowsOfOthers == {w \in DOMAIN pre.wallets : pre.wallets[w].user_id # last.uid}

\* the caller owns the row the request names
OwnWallet ==
    /\ ~Falsy(last.uid)
    /\ last.id \in DOMAIN pre.wallets
    /\ pre.wallets[last.id].user_id = last.uid

\* C21: a delete request leaves every wallet of every other identity in the
\* table, unchanged; it removes a row only when the caller owns the wallet it
\* names, and then it removes that row and no other, with status 200.
OwnerDeletesWallet ==
    DeletesWallet =>
        /\ \A w \in RowsOfOthers :
               w \in DOMAIN wallets /\ wallets[w] = pre.wallets[w]
        /\ OwnWallet => last.status = 200 /\ wallets = Remove(pre.wallets, last.id)
        /\ ~OwnWallet => last.status # 200 /\ wallets = pre.wallets

\* A caller's delete of a wallet of theirs is answered 200 and leaves another
\* wallet of theirs and a wallet of the other user in the table.
OwnerDeletesWalletWitness ==
    /\ DeletesWallet
    /\ OwnWallet
    /\ last.status = 200
    /\ \E w \in DOMAIN wallets : wallets[w].user_id = last.uid
    /\ \E w \in DOMAIN wallets : wallets[w].user_id # last.uid

\* A delete of a wallet of the other user is answered 404 and the wallet stays.
ForeignDeleteRefused ==
    /\ DeletesWallet
    /\ ~Falsy(last.uid)
    /\ last.id \in RowsOfOthers
    /\ last.status = 404
    /\ last.id \in DOMAIN wallets

\* ------------------------------------------------------------------------
\* C22: store failures are answered 500 by the handler
\* ------------------------------------------------------------------------

\* a store call of the last request raised
StoreFailed ==
    /\ last.fault # NoFault
    /\ \E i \in 1..Len(last.calls) : last.calls[i] = last.fault

\* C22: when a store call raises inside a handler, the handler catches it and
\* answers 500 with its own error body: the exception does not escape the
\* handler and is not answered with another status.
StoreFailureCaught ==
    StoreFailed => (last.status = 500 /\ last.msg # Unhandled)

\* the failures that handle of delete_problem.py catches
DeleteFailureCaught ==
    /\ StoreFailed
    /\ last.op = "delete_problem"
    /\ last.status = 500
    /\ last.msg = "Failed to delete problem"

\* ------------------------------------------------------------------------
\* C23: 405 for a known route under a method it does not support
\* ------------------------------------------------------------------------

\* the request went through one of the routers
ViaRouter == last.method # ""

\* the routes a router serves under some method
KnownRoute(router, route) ==
    \E m \in Methods : Routed(router, m, route) # RouteNotFound

\* the router that turned the last request away
Refusing == last.op \in Routers

\* C23: a router answers 405 to a request for a route it serves under another
\* method, and 404 only to a request for a route it serves under no method;
\* either way no handler runs and no store call is made.
MethodNotAllowed ==
    (ViaRouter /\ Refusing) =>
        /\ last.calls = <<>>
        /\ Stores = pre
        /\ KnownRoute(last.op, last.route) => last.status = 405
        /\ ~KnownRoute(last.op, last.route) => last.status = 404

\* What the routers do: every request they hand to no handler is answered
\* 404, whether or not the route is served under another method, without a
\* store call.
UnroutedIs404 ==
    (ViaRouter /\ Refusing) =>
        /\ last.status = 404
        /\ last.calls = <<>>
        /\ Stores = pre

\* a PUT for the route 'problems', which both routers serve under GET and POST
UnroutedIs404Witness ==
    /\ ViaRouter
    /\ Refusing
    /\ last.route = "problems"
    /\ last.method = "PUT"
    /\ last.status = 404
    /\ \E i \in DOMAIN problems : TRUE

\* ------------------------------------------------------------------------
\* C24: one wallet per user and chain
\* ------------------------------------------------------------------------

\* the rows of a user for a chain
RowsOf(uid, chain) ==
    {i \in DOMAIN wallets : wallets[i].user_id = uid /\ wallets[i].chain = chain}

\* no POST is in progress
Quiet == \A p \in DOMAIN inflight : inflight[p].pc = "done"

\* the POSTs of a user for a chain that were answered 201
Linked(uid, chain) ==
    {p \in DOMAIN inflight : /\ inflight[p].uid = uid
                             /\ inflight[p].chain = chain
                             /\ inflight[p].status = 201}

\* the one of them that was answered last
LatestLinked(uid, chain) ==
    CHOOSE p \in Linked(uid, chain) :
        \A q \in Linked(uid, chain) : inflight[q].at <= inflight[p].at

\* C24: once the POSTs issued have been answered, in whatever order their
\* deletes and inserts ran, the table holds at most one row for each user and
\* chain, and where a POST for that user and chain was answered 201 the row
\* holds the address of the latest such POST.
OneWalletPerChain ==
    Quiet =>
        \A uid \in Users, chain \in Chains :
            /\ Cardinality(RowsOf(uid, chain)) <= 1
            /\ Linked(uid, chain) # {} =>
                   \A i \in RowsOf(uid, chain) :
                       wallets[i].address = inflight[LatestLinked(uid, chain)].address

\* two POSTs of one user for one chain with two addresses were both answered
\* 201 and left two rows
TwoWalletsOnChain ==
    /\ Quiet
    /\ \E uid \in Users, chain \in Chains :
           /\ Cardinality(Linked(uid, chain)) = 2
           /\ Cardinality(RowsOf(uid, chain)) = 2
           /\ \E i, j \in RowsOf(uid, chain) : wallets[i].address # wallets[j].address

\* ------------------------------------------------------------------------
\* C29: a wallet POST that fails leaves the caller's wallets alone
\* ------------------------------------------------------------------------

\* the rows of a table that a user owns
WalletsOf(table, uid) ==
    [i \in {j \in DOMAIN table : table[j].user_id = uid} |-> table[i]]

\* C29: a wallet POST answered with any status other than 201 leaves the
\* caller's wallets as they were before the request, the wallet linked for
\* the chain of the request among them.
FailedPostKeepsWallets ==
    (last.op = "wallets_post" /\ last.status # 201) =>
        WalletsOf(wallets, last.uid) = WalletsOf(pre.wallets, last.uid)

\* a POST answered 409 or 500 after which the wallet the caller had linked for
\* the chain is gone, while the caller's wallet for the other chain is there
FailedPostUnlinks ==
    /\ last.op = "wallets_post"
    /\ last.status \in {409, 500}
    /\ \E i \in DOMAIN pre.wallets :
           /\ pre.wallets[i].user_id = last.uid
           /\ pre.wallets[i].chain = last.body.chain
           /\ i \notin DOMAIN wallets
    /\ \E i \in DOMAIN wallets :
           wallets[i].user_id = last.uid /\ wallets[i].chain # last.body.chain

\* ------------------------------------------------------------------------
\* C25: per-user listings return the caller's records only
\* ------------------------------------------------------------------------

UserListings == {"get_user_problems", "get_user_proposals", "get_posts", "wallets_get"}

\* the owner of the record that a listing returned under an id
ListedOwner(op, i) ==
    IF op = "get_user_problems" THEN problems[i].authorId
    ELSE IF op = "get_user_proposals" THEN proposals[i].builderId
    ELSE IF op = "get_posts" THEN posts[i].user_id
    ELSE wallets[i].user_id

\* C25: whatever the stores hold, a listing of the caller's problems,
\* proposals, posts or wallets that is answered 200 returns only records
\* owned by the caller, with the store of cosmos.py as it is.
OwnRecordsOnly ==
    (last.op \in UserListings /\ last.status = 200) =>
        \A k \in 1 .. Len(last.page.items) :
            ListedOwner(last.op, last.page.items[k]) = last.uid

\* a listing of a user's proposals returned a proposal of the other user
ForeignProposalListed ==
    /\ last.op = "get_user_proposals"
    /\ last.status = 200
    /\ last.uid \in Users
    /\ \E k \in 1 .. Len(last.page.items) :
           proposals[last.page.items[k]].builderId \in Users \ {last.uid}

\* the three other listings return the caller's records only
OtherListingsOwnOnly ==
    (last.op \in UserListings \ {"get_user_proposals"} /\ last.status = 200) =>
        \A k \in 1 .. Len(last.page.items) :
            ListedOwner(last.op, last.page.items[k]) = last.uid

\* ------------------------------------------------------------------------
\* C26: the upvote count of a problem is the number of its upvote records
\* ------------------------------------------------------------------------

\* C26: while upvotes and removals of upvotes of existing problems run one
\* after the other, the 'upvotes' count of every stored problem is the number
\* of upvote records with the problem's id, and it is not negative.
CountIsRecords ==
    \A id \in DOMAIN problems :
        /\ problems[id].upvotes = Cardinality(Records(id))
        /\ problems[id].upvotes >= 0

\* a removal answered 200 took one of two upvotes of a problem away
CountIsRecordsWitness ==
    /\ last.op = "remove_upvote"
    /\ last.status = 200
    /\ last.id \in DOMAIN problems
    /\ pre.problems[last.id].upvotes = 2
    /\ problems[last.id].upvotes = 1
    /\ Cardinality(Records(last.id)) = 1

\* ------------------------------------------------------------------------
\* C27: two deletes of one problem that overlap
\* ------------------------------------------------------------------------

\* two answered deletes of one problem, stored when they were issued, both
\* by its owner
OwnerDeletes(p, q) ==
    /\ p # q
    /\ inflight[p].pc = "done"
    /\ inflight[q].pc = "done"
    /\ inflight[p].id = inflight[q].id
    /\ inflight[p].id \in DOMAIN pre.problems
    /\ inflight[p].uid = pre.problems[inflight[p].id].authorId
    /\ inflight[q].uid = inflight[p].uid

\* C27: of two deletes of one stored problem by its owner, in whatever order
\* their store calls run, one is answered 200 and the other 404; no delete is
\* answered 500.
OneDeleteWins ==
    /\ \A p \in DOMAIN inflight : inflight[p].status # 500
    /\ \A p, q \in DOMAIN inflight :
           OwnerDeletes(p, q) => {inflight[p].status, inflight[q].status} = {200, 404}

\* two deletes of a problem by its owner were answered 200 and 500
SecondDeleteFails ==
    \E p, q \in DOMAIN inflight :
        /\ OwnerDeletes(p, q)
        /\ inflight[p].status = 200
        /\ inflight[q].status = 500
        /\ inflight[p].id \notin DOMAIN problems

\* the deletes that do not overlap are answered 200 and 404
SecondDeleteMisses ==
    \E p, q \in DOMAIN inflight :
        /\ OwnerDeletes(p, q)
        /\ inflight[p].status = 200
        /\ inflight[q].status = 404

\* ------------------------------------------------------------------------
\* C28: upvote, removal of an upvote and proposal are all or nothing
\* ------------------------------------------------------------------------

TwoWrites == {"upvote_problem", "remove_upvote", "create_proposal"}

\* C28: when upvote_problem, remove_upvote or create_proposal answers 500
\* because a store call raised, the containers hold what they held before the
\* request: neither the record nor the count has changed.
AllOrNothing ==
    (last.op \in TwoWrites /\ StoreFailed /\ last.status = 500) => Stores = pre

\* an upvote answered 500 left its upvote record behind, and the count of the
\* problem is below the number of its upvote records
HalfDone ==
    /\ last.op = "upvote_problem"
    /\ StoreFailed
    /\ last.status = 500
    /\ upvote_id(last.id, last.uid) \in DOMAIN upvotes \ DOMAIN pre.upvotes
    /\ problems[last.id].upvotes < Cardinality(Records(last.id))

\* a request of the three that fails on its first write changes nothing
FirstWriteFails ==
    /\ last.op \in TwoWrites
    /\ StoreFailed
    /\ last.fault \in {"create_item", "delete_item"}
    /\ last.status = 500
    /\ Stores = pre

\* ------------------------------------------------------------------------
\* C30: updates keep the category and the budget value of a problem valid
\* ------------------------------------------------------------------------

\* the budget value of a stored problem is the one parsed from its budget
BudgetValueParsed(doc) ==
    /\ doc.budget # NonStringBudget
    /\ doc.budgetValue = parse_budget_value(doc.budget)

\* C30: after any creates and updates of problems, every stored problem has
\* a category of valid_categories, and its budgetValue is parse_budget_value
\* of its budget.
FieldsKept ==
    \A id \in DOMAIN problems :
        /\ problems[id].category \in valid_categories
        /\ BudgetValueParsed(problems[id])

\* an update answered 200 stored a category outside the list
OtherCategoryStored ==
    /\ last.op = "update_problem"
    /\ last.status = 200
    /\ pre.problems[last.id].category \in valid_categories
    /\ problems[last.id].category \notin valid_categories

\* What does hold: every create, and every update answered 200, leaves the
\* budget value of the problem parsed from its budget.
BudgetValueKept ==
    (last.op \in {"create_problem", "update_problem"} /\ last.status \in {200, 201}) =>
        \A id \in DOMAIN problems :
            (id \in DOMAIN pre.problems => BudgetValueParsed(pre.problems[id]))
                => BudgetValueParsed(problems[id])

\* an update answered 200 replaced the budget "$50" by "$75/mo" and the value
\* 50 by 75
BudgetValueKeptWitness ==
    /\ last.op = "update_problem"
    /\ last.status = 200
    /\ pre.problems[last.id].budgetValue = 50
    /\ problems[last.id].budgetValue = 75

====
